---- MODULE Spec2Model ----
(***************************************************************************)
(* Model of the cubes dimensional metadata model                          *)
(* (src/cubes/metadata/dimension.py): Level, Hierarchy and Dimension      *)
(* objects live in a heap of records addressed by their position; an      *)
(* object reference is its index, 0 is Python's None.  The extension      *)
(* registry (src/cubes/ext.py) is an ExtensionFinder and the heap of the  *)
(* _Extension objects it made.                                            *)
(***************************************************************************)
EXTENDS Integers, Sequences, FiniteSets, TLC

VARIABLES attrs, levels, hiers, dims, finder, exts, creates, threads, call, ret

vars == <<attrs, levels, hiers, dims, finder, exts, creates, threads, call, ret>>

\* Python's None for string-valued fields; object references use 0.
None == "None"

\* the ExtensionFinder (type_ and the extensions cache), the _Extension
\* objects, the names create was called with so far, and the threads that
\* are inside _get
registry_vars == <<finder, exts, creates, threads>>

\* no ExtensionFinder is in play
NoRegistry ==
    /\ finder = [type_ |-> None, extensions |-> <<>>]
    /\ exts = <<>>
    /\ creates = {}
    /\ threads = <<>>

---------------------------------------------------------------------------
\* Bounds of the model.

\* longest path handed to Hierarchy.rollup
MaxPath == 3
\* most levels in the hierarchy that rollup is called on
MaxHierLevels == 3
\* longest attribute list handed to Level
MaxLevelAttrs == 2
\* most Hierarchy objects built before a Dimension is
MaxHiers == 2
\* longest level list handed to Dimension
MaxDimLevels == 2

---------------------------------------------------------------------------
\* Generic sequence helpers.

SeqsUpTo(S, n) == UNION {[1..k -> S] : k \in 0..n}

Range(s) == {s[i] : i \in 1..Len(s)}

NoDup(s) == \A i, j \in 1..Len(s) : s[i] = s[j] => i = j

\* list(...).index(x), 0-based; -1 stands for Python's ValueError
IndexOf(s, x) ==
    IF \E i \in 1..Len(s) : s[i] = x
    THEN (CHOOSE i \in 1..Len(s) : s[i] = x /\ \A j \in 1..(i - 1) : s[j] # x) - 1
    ELSE -1

\* Python slice s[0:n] for 0 <= n
Slice0(s, n) == SubSeq(s, 1, IF n < Len(s) THEN n ELSE Len(s))

---------------------------------------------------------------------------
\* The heap as one value, threaded through the constructors.

Heap == [attrs |-> attrs, levels |-> levels, hiers |-> hiers, dims |-> dims]

EmptyHeap == [attrs |-> <<>>, levels |-> <<>>, hiers |-> <<>>, dims |-> <<>>]

\* Attribute(name): a fresh attribute owned by no dimension, ref = name
Attribute(name) == [name |-> name, dimension |-> 0, ref |-> <<name>>]

\* names of the level objects of a list of level references
LevelNamesOf(h, ls) == [i \in 1..Len(ls) |-> h.levels[ls[i]].name]

\* names of the hierarchy objects of a list of hierarchy references
HierNamesOf(h, hs) == [i \in 1..Len(hs) |-> h.hiers[hs[i]].name]

\* object_dict(objects): an ordered name -> object mapping; a repeated name
\* is a ModelError.  TRUE when the mapping can be built.
object_dict(names) == NoDup(names)

---------------------------------------------------------------------------
\* Level

\* Level.attribute(name): the first attribute of the level with that name;
\* 0 stands for NoSuchAttributeError
Level_attribute(h, attributes, name) ==
    IF \E i \in 1..Len(attributes) : h.attrs[attributes[i]].name = name
    THEN attributes[CHOOSE i \in 1..Len(attributes) :
                /\ h.attrs[attributes[i]].name = name
                /\ \A j \in 1..(i - 1) : h.attrs[attributes[j]].name # name]
    ELSE 0

\* the nonadditive test shared by Level.__init__ and Dimension.__init__:
\* TRUE when the constructor raises ModelError
nonadditive_raises(nonadditive) ==
    /\ ~(nonadditive \in {None, ""} \/ nonadditive = "none")
    /\ nonadditive \notin {"all", "any"}
    /\ nonadditive # "time"

\* the value left in self.nonadditive: the branches assign None / "all",
\* the unconditional assignment after them stores the argument as given
nonadditive_stored(nonadditive) ==
    LET branch == IF nonadditive \in {None, ""} \/ nonadditive = "none" THEN None
                  ELSE IF nonadditive \in {"all", "any"} THEN "all"
                  ELSE nonadditive
    IN  nonadditive

\* the key doubles as the label whatever other attributes there are
default_label_attribute_key(attributes, key) == key

\* Level.__init__ without a label_attribute: the second attribute, or the key
\* of a level with one attribute
default_label_attribute(attributes, key) ==
    IF Len(attributes) > 1 THEN attributes[2] ELSE key

\* Level.__init__: [status, h, id]; on success the level is the heap's last
LevelInit(h, name, attributes, key, order_attribute, label_attribute, nonadditive) ==
    LET id    == Len(h.levels) + 1
        fail(e) == [status |-> e, h |-> h, id |-> 0]
        k     == IF key # None /\ key # ""
                 THEN Level_attribute(h, attributes, key) ELSE attributes[1]
        lab   == IF label_attribute # None /\ label_attribute # ""
                 THEN Level_attribute(h, attributes, label_attribute)
                 ELSE default_label_attribute(attributes, k)
        ord   == IF order_attribute # None /\ order_attribute # ""
                 THEN Level_attribute(h, attributes, order_attribute)
                 ELSE attributes[1]
        obj   == [name |-> name, attributes |-> attributes, key |-> k,
                  label_attribute |-> lab, order_attribute |-> ord,
                  nonadditive |-> nonadditive_stored(nonadditive)]
    IN  IF Len(attributes) = 0 THEN fail("ModelError")
        ELSE IF nonadditive_raises(nonadditive) THEN fail("ModelError")
        ELSE IF k = 0 THEN fail("NoSuchAttributeError")
        ELSE IF lab = 0 THEN fail("NoSuchAttributeError")
        ELSE IF ord = 0 THEN fail("NoSuchAttributeError")
        ELSE [status |-> "ok",
              h |-> [h EXCEPT !.levels = Append(h.levels, obj)],
              id |-> id]

---------------------------------------------------------------------------
\* Hierarchy

\* Hierarchy.__init__: [status, h, id]
HierarchyInit(h, name, ls) ==
    IF Len(ls) = 0
    THEN [status |-> "ModelInconsistencyError", h |-> h, id |-> 0]
    ELSE IF ~object_dict(LevelNamesOf(h, ls))
    THEN [status |-> "ModelError", h |-> h, id |-> 0]
    ELSE [status |-> "ok",
          h |-> [h EXCEPT !.hiers = Append(h.hiers, [name |-> name, levels |-> ls])],
          id |-> Len(h.hiers) + 1]

\* Hierarchy.level_index(name): 0-based position; -1 stands for HierarchyError
level_index(h, hid, name) == IndexOf(LevelNamesOf(h, h.hiers[hid].levels), name)

\* an off-by-one guard: a level one past the end of the path is accepted
rollup_loose(h, hid, path, level) ==
    IF level # 0
    THEN LET idx  == level_index(h, hid, h.levels[level].name)
             last == idx + 1
         IN  IF idx < 0 THEN [status |-> "HierarchyError", value |-> <<>>, path |-> path]
             ELSE IF last > Len(path) + 1 THEN [status |-> "HierarchyError", value |-> <<>>, path |-> path]
             ELSE [status |-> "ok", value |-> Slice0(path, last), path |-> path]
    ELSE IF Len(path) > 0
         THEN [status |-> "ok", value |-> Slice0(path, Len(path) - 1), path |-> path]
         ELSE [status |-> "ok", value |-> <<>>, path |-> path]

\* rolling up TO a level excludes that level's element
rollup_exclusive(h, hid, path, level) ==
    IF level # 0
    THEN LET idx  == level_index(h, hid, h.levels[level].name)
             last == idx + 1
         IN  IF idx < 0 THEN [status |-> "HierarchyError", value |-> <<>>, path |-> path]
             ELSE IF last > Len(path) THEN [status |-> "HierarchyError", value |-> <<>>, path |-> path]
             ELSE [status |-> "ok", value |-> Slice0(path, idx), path |-> path]
    ELSE IF Len(path) > 0
         THEN [status |-> "ok", value |-> Slice0(path, Len(path) - 1), path |-> path]
         ELSE [status |-> "ok", value |-> <<>>, path |-> path]

\* Hierarchy.rollup(path, level): [status, value, path]; level is a Level
\* reference, path in the result is the argument list as the call leaves it
rollup(h, hid, path, level) ==
    IF level # 0
    THEN LET idx  == level_index(h, hid, h.levels[level].name)
             last == idx + 1
         IN  IF idx < 0 THEN [status |-> "HierarchyError", value |-> <<>>, path |-> path]
             ELSE IF last > Len(path) THEN [status |-> "HierarchyError", value |-> <<>>, path |-> path]
             ELSE [status |-> "ok", value |-> Slice0(path, last), path |-> path]
    ELSE IF Len(path) > 0
         THEN [status |-> "ok", value |-> Slice0(path, Len(path) - 1), path |-> path]
         ELSE [status |-> "ok", value |-> <<>>, path |-> path]

---------------------------------------------------------------------------
\* Dimension

RECURSIVE all_attributes(_, _)
\* the attributes of the levels ls, level after level (the order in which
\* Dimension.__init__ visits them)
all_attributes(h, ls) ==
    IF ls = <<>> THEN <<>>
    ELSE h.levels[Head(ls)].attributes \o all_attributes(h, Tail(ls))

\* is_flat without the delegation to the master
is_flat_own(h, d) == Len(h.dims[d].levels) = 1

RECURSIVE is_flat(_, _)
\* Dimension.is_flat
is_flat(h, d) ==
    IF h.dims[d].master # 0 THEN is_flat(h, h.dims[d].master)
    ELSE Len(h.dims[d].levels) = 1

RECURSIVE has_details(_, _)
\* Dimension.has_details
has_details(h, d) ==
    IF h.dims[d].master # 0 THEN has_details(h, h.dims[d].master)
    ELSE \E i \in 1..Len(h.dims[d].levels) :
            Len(h.levels[h.dims[d].levels[i]].attributes) > 1

\* attribute.dimension = d: the attribute's owner and its qualified reference
set_dimension(h, a, d) ==
    IF d = 0
    THEN [a EXCEPT !.dimension = 0, !.ref = <<a.name>>]
    ELSE [a EXCEPT !.dimension = d,
                   !.ref = IF is_flat(h, d) /\ ~has_details(h, d)
                           THEN <<h.dims[d].name>>
                           ELSE <<h.dims[d].name, a.name>>]

\* the ownership test of Dimension.__init__ left out
claim_conflict_never(h, a, self) == FALSE

\* Dimension.__init__, "a.dimension is not None and a.dimension is not self"
claim_conflict(h, a, self) ==
    h.attrs[a].dimension # 0 /\ h.attrs[a].dimension # self

\* self._attributes: attribute name -> attribute, a later one replaces an earlier
attributes_by_name(h, as) ==
    [k \in {h.attrs[as[i]].name : i \in 1..Len(as)} |->
        as[CHOOSE i \in 1..Len(as) :
              /\ h.attrs[as[i]].name = k
              /\ \A j \in (i + 1)..Len(as) : h.attrs[as[j]].name # k]]

\* self._attributes_by_ref: attribute ref -> attribute, likewise
attributes_by_ref(h, as) ==
    [k \in {h.attrs[as[i]].ref : i \in 1..Len(as)} |->
        as[CHOOSE i \in 1..Len(as) :
              /\ h.attrs[as[i]].ref = k
              /\ \A j \in (i + 1)..Len(as) : h.attrs[as[j]].ref # k]]

\* only the hierarchy named "default" is looked up, whatever name is given
default_hierarchy_ignoring(h, hs, default_hierarchy_name) ==
    IF \E i \in 1..Len(hs) : h.hiers[hs[i]].name = "default"
    THEN hs[CHOOSE i \in 1..Len(hs) : h.hiers[hs[i]].name = "default"]
    ELSE hs[1]

\* the default hierarchy of Dimension.__init__:
\* self._hierarchies.get(default_hierarchy_name or "default", <first hierarchy>)
default_hierarchy(h, hs, default_hierarchy_name) ==
    LET default_name == IF default_hierarchy_name \notin {None, ""}
                        THEN default_hierarchy_name ELSE "default"
    IN  IF \E i \in 1..Len(hs) : h.hiers[hs[i]].name = default_name
        THEN hs[CHOOSE i \in 1..Len(hs) : h.hiers[hs[i]].name = default_name]
        ELSE hs[1]

\* the implicit hierarchy holds the first level only
implicit_hierarchy_first(h, lv) == HierarchyInit(h, "default", <<lv[1]>>)

\* Dimension.__init__ without hierarchies: Hierarchy("default", self.levels)
implicit_hierarchy(h, lv) == HierarchyInit(h, "default", lv)

\* Dimension.__init__, its last step: the default hierarchy is chosen and
\* the constructor returns
Dimension_default(h, self, hs, default_hierarchy_name) ==
    [status |-> "ok",
     h |-> [h EXCEPT
              !.dims[self].hierarchies = hs,
              !.dims[self].default_hierarchy =
                  default_hierarchy(h, hs, default_hierarchy_name),
              !.dims[self].default_hierarchy_name =
                  h.hiers[default_hierarchy(h, hs, default_hierarchy_name)].name,
              !.dims[self].ok = TRUE],
     id |-> self]

\* Dimension.__init__, the hierarchies: the given ones, which must differ in
\* name, or one "default" hierarchy over all levels
Dimension_hierarchies(h, self, lv, hierarchies, default_hierarchy_name) ==
    IF Len(hierarchies) > 0
    THEN IF ~object_dict(HierNamesOf(h, hierarchies))
         THEN [status |-> "ModelError", h |-> h, id |-> 0]
         ELSE Dimension_default(h, self, hierarchies, default_hierarchy_name)
    ELSE Dimension_default(implicit_hierarchy(h, lv).h, self,
                           <<Len(h.hiers) + 1>>, default_hierarchy_name)

\* the attributes mine become owned by dimension self
own_attributes(h, self, mine) ==
    [h EXCEPT !.attrs =
        [a \in 1..Len(h.attrs) |->
            IF a \in Range(mine) THEN set_dimension(h, h.attrs[a], self)
            ELSE h.attrs[a]]]

\* the attributes mine are entered in the dimension's two attribute maps
index_attributes(h, self, mine) ==
    [h EXCEPT !.dims[self].attributes = attributes_by_name(h, mine),
              !.dims[self].attributes_by_ref = attributes_by_ref(h, mine)]

\* position in as of the first attribute owned by another dimension,
\* Len(as) + 1 when there is none
first_conflict(h, as, self) ==
    IF \E i \in 1..Len(as) : claim_conflict(h, as[i], self)
    THEN CHOOSE i \in 1..Len(as) :
            /\ claim_conflict(h, as[i], self)
            /\ \A j \in 1..(i - 1) : ~claim_conflict(h, as[j], self)
    ELSE Len(as) + 1

\* Dimension.__init__, "Collect attributes": the attributes as of the levels
\* are claimed in order up to position stop; the constructor raises when stop
\* is a position of as, an attribute owned by another dimension
Dimension_collect(h, self, lv, as, stop, hierarchies, default_hierarchy_name) ==
    IF stop <= Len(as)
    THEN [status |-> "ModelError",
          h |-> index_attributes(own_attributes(h, self, SubSeq(as, 1, stop - 1)),
                                 self, SubSeq(as, 1, stop - 1)),
          id |-> 0]
    ELSE Dimension_hierarchies(index_attributes(own_attributes(h, self, as), self, as),
                               self, lv, hierarchies, default_hierarchy_name)

\* Dimension.__init__ once the levels lv are settled.  The object under
\* construction is in the heap from the moment attributes can refer to it;
\* ok tells whether the constructor returned.
Dimension_levels(h, name, lv, hierarchies, default_hierarchy_name, master, nonadditive) ==
    IF ~object_dict(LevelNamesOf(h, lv))
    THEN [status |-> "ModelError", h |-> h, id |-> 0]
    ELSE Dimension_collect(
            [h EXCEPT !.dims = Append(h.dims,
                [name |-> name, levels |-> lv, hierarchies |-> <<>>,
                 default_hierarchy |-> 0, default_hierarchy_name |-> None,
                 master |-> master,
                 nonadditive |-> nonadditive_stored(nonadditive),
                 attributes |-> <<>>, attributes_by_ref |-> <<>>,
                 label |-> None, description |-> None, info |-> {},
                 role |-> None, cardinality |-> None, category |-> None,
                 ok |-> FALSE])],
            Len(h.dims) + 1, lv, all_attributes(h, lv),
            first_conflict(h, all_attributes(h, lv), Len(h.dims) + 1),
            hierarchies, default_hierarchy_name)

\* Dimension.__init__: [status, h, id]
DimensionInit(h, name, lvls, hierarchies, default_hierarchy_name, master, nonadditive, attributes) ==
    IF nonadditive_raises(nonadditive)
    THEN [status |-> "ModelError", h |-> h, id |-> 0]
    ELSE IF Len(lvls) = 0 /\ Len(attributes) = 0
    THEN [status |-> "ModelError", h |-> h, id |-> 0]
    ELSE IF Len(lvls) > 0 /\ Len(attributes) > 0
    THEN [status |-> "ModelError", h |-> h, id |-> 0]
    ELSE IF Len(attributes) > 0
    THEN Dimension_levels(LevelInit(h, name, attributes, None, None, None, None).h,
                          name, <<Len(h.levels) + 1>>, hierarchies,
                          default_hierarchy_name, master, nonadditive)
    ELSE Dimension_levels(h, name, lvls, hierarchies, default_hierarchy_name,
                          master, nonadditive)

\* Dimension.__init__ called with label, description, info, role, cardinality
\* and category as well: r is the outcome of the constructor for the other
\* arguments, desc holds these six, which the constructor stores as given
\* (an info of None as the empty dictionary, here the empty set of its keys)
described(r, desc) ==
    IF r.status # "ok" THEN r
    ELSE [r EXCEPT !.h.dims[r.id].label = desc.label,
                   !.h.dims[r.id].description = desc.description,
                   !.h.dims[r.id].info = desc.info,
                   !.h.dims[r.id].role = desc.role,
                   !.h.dims[r.id].cardinality = desc.cardinality,
                   !.h.dims[r.id].category = desc.category]

\* Dimension.hierarchy(obj) with obj None or a name; 0 stands for ModelError
hierarchy(h, d, obj) ==
    IF obj = None THEN h.dims[d].default_hierarchy
    ELSE LET hs == h.dims[d].hierarchies
         IN  IF \E i \in 1..Len(hs) : h.hiers[hs[i]].name = obj
             THEN hs[CHOOSE i \in 1..Len(hs) : h.hiers[hs[i]].name = obj]
             ELSE 0

---------------------------------------------------------------------------
\* Building a heap of levels and hierarchies with the constructors.

RECURSIVE MakeLevels(_, _)
\* Level(name, attributes) for each entry of specs, in order
MakeLevels(h, specs) ==
    IF specs = <<>> THEN h
    ELSE MakeLevels(LevelInit(h, Head(specs).name, Head(specs).attributes,
                              None, None, None, None).h,
                    Tail(specs))

RECURSIVE MakeHierarchies(_, _)
\* Hierarchy(name, levels) for each entry of specs, in order
MakeHierarchies(h, specs) ==
    IF specs = <<>> THEN h
    ELSE MakeHierarchies(HierarchyInit(h, Head(specs).name, Head(specs).levels).h,
                         Tail(specs))

\* one attribute per name, and one single-attribute level per attribute
FlatLevels(names) ==
    MakeLevels([EmptyHeap EXCEPT !.attrs = [i \in 1..Len(names) |-> Attribute(names[i])]],
               [i \in 1..Len(names) |-> [name |-> names[i], attributes |-> <<i>>]])

NoCall == [op |-> "none"]
NoRet  == [status |-> "none"]

\* the next state's heap is h
SetHeap(h) ==
    /\ attrs' = h.attrs
    /\ levels' = h.levels
    /\ hiers' = h.hiers
    /\ dims' = h.dims
    /\ UNCHANGED registry_vars

---------------------------------------------------------------------------
\* Specification SpecRollup: one hierarchy over some of the levels year,
\* quarter, month, in any order, and calls of Hierarchy.rollup on it.

RollupLevels == <<"year", "quarter", "month">>
PathElems == {"2020", "Q1"}

RollupInit ==
    \E ls \in {s \in SeqsUpTo(1..Len(RollupLevels), MaxHierLevels) : s # <<>> /\ NoDup(s)} :
        LET h == HierarchyInit(FlatLevels(RollupLevels), "default", ls).h
        IN  /\ attrs = h.attrs
            /\ levels = h.levels
            /\ hiers = h.hiers
            /\ dims = h.dims
            /\ call = NoCall
            /\ ret = NoRet
            /\ NoRegistry

\* hierarchy.rollup(path, level) with level a Level object or None
Rollup ==
    \E path \in SeqsUpTo(PathElems, MaxPath), level \in 0..Len(levels) :
        /\ call' = [op |-> "rollup", hier |-> 1, path |-> path, level |-> level]
        /\ ret' = rollup(Heap, 1, path, level)
        /\ UNCHANGED <<attrs, levels, hiers, dims, finder, exts, creates, threads>>

RollupNext == Rollup

SpecRollup == RollupInit /\ [][RollupNext]_vars

\* the level of the call is the first level of the hierarchy
RollupToFirst ==
    /\ call.op = "rollup"
    /\ call.level # 0
    /\ hiers[call.hier].levels[1] = call.level

\* C1 as stated: Hierarchy.rollup(path, level) with level the first level of
\* the hierarchy returns the empty list for every path of length >= 1.
C1_AsStated ==
    (RollupToFirst /\ Len(call.path) >= 1) => (ret.status = "ok" /\ ret.value = <<>>)

\* C1 amended: Hierarchy.rollup(path, level) with level the first level of the
\* hierarchy returns the one-element list holding the first element of path,
\* for every path of length >= 1.
C1_RollupFirstLevel ==
    (RollupToFirst /\ Len(call.path) >= 1) =>
        (ret.status = "ok" /\ ret.value = <<call.path[1]>>)

\* a roll-up of a three-element path to the first level has returned
C1_Witness ==
    RollupToFirst /\ Len(call.path) = 3 /\ ret.status = "ok" /\ Len(ret.value) = 1

\* C2: rollup returns a prefix of path.  With a level: the first
\* level_index(level)+1 elements, and HierarchyError exactly when the level is
\* not in the hierarchy or level_index(level)+1 > len(path).  Without a level:
\* path without its last element, [] for a path of length 0 or 1.  The path
\* handed in is left as it was.
C2_RollupPrefix ==
    call.op = "rollup" =>
        LET names == LevelNamesOf(Heap, hiers[call.hier].levels)
            p     == call.path
        IN  /\ ret.path = p
            /\ ret.status = "ok" =>
                  /\ Len(ret.value) <= Len(p)
                  /\ \A i \in 1..Len(ret.value) : ret.value[i] = p[i]
            /\ call.level # 0 =>
                  LET n == levels[call.level].name
                      inH == \E i \in 1..Len(names) : names[i] = n
                      pos == CHOOSE i \in 1..Len(names) : names[i] = n
                  IN  /\ ret.status = "HierarchyError" <=> (~inH \/ pos > Len(p))
                      /\ ret.status = "ok" => Len(ret.value) = pos
            /\ call.level = 0 =>
                  /\ ret.status = "ok"
                  /\ Len(ret.value) = (IF Len(p) = 0 THEN 0 ELSE Len(p) - 1)

\* a roll-up to the second level of a hierarchy has cut a longer path, and
\* the same hierarchy can refuse a level deeper than a path
C2_Witness ==
    /\ call.op = "rollup"
    /\ call.level # 0
    /\ Len(hiers[call.hier].levels) >= 2
    /\ hiers[call.hier].levels[2] = call.level
    /\ Len(call.path) = 3
    /\ ret.status = "ok"
    /\ Len(ret.value) = 2

---------------------------------------------------------------------------
\* Specification SpecLevel: three attributes exist (two of them share a
\* name); a Level is built from some of them, then a Dimension over that
\* level.

LevelPool == <<"code", "name", "code">>
\* key, label_attribute and order_attribute arguments: absent, or a name
AttrArgs == {None, "code", "name", "zzz"}
\* nonadditive arguments
NonadditiveArgs == {None, "none", "all", "any", "time", "bogus"}

LevelSpecInit ==
    /\ attrs = [i \in 1..Len(LevelPool) |-> Attribute(LevelPool[i])]
    /\ levels = <<>>
    /\ hiers = <<>>
    /\ dims = <<>>
    /\ call = NoCall
    /\ ret = NoRet
    /\ NoRegistry

\* Level("month", attributes, key, order_attribute, ..., nonadditive)
NewLevel ==
    /\ call = NoCall
    /\ \E attributes \in SeqsUpTo(1..Len(attrs), MaxLevelAttrs),
          key \in AttrArgs, order_attribute \in AttrArgs,
          label_attribute \in AttrArgs, nonadditive \in NonadditiveArgs :
          LET r == LevelInit(Heap, "month", attributes, key, order_attribute,
                             label_attribute, nonadditive)
          IN  /\ SetHeap(r.h)
              /\ call' = [op |-> "Level", attributes |-> attributes, key |-> key,
                          order_attribute |-> order_attribute,
                          label_attribute |-> label_attribute,
                          nonadditive |-> nonadditive]
              /\ ret' = [status |-> r.status, id |-> r.id]

\* Dimension("date", levels=[level], nonadditive=...) over the level just built
LevelDimension ==
    /\ call.op = "Level"
    /\ ret.status = "ok"
    /\ \E nonadditive \in NonadditiveArgs :
          LET r == DimensionInit(Heap, "date", <<ret.id>>, <<>>, None, 0,
                                 nonadditive, <<>>)
          IN  /\ SetHeap(r.h)
              /\ call' = [op |-> "Dimension", levels |-> <<ret.id>>,
                          hierarchies |-> <<>>, default_hierarchy_name |-> None,
                          nonadditive |-> nonadditive, attributes |-> <<>>]
              /\ ret' = [status |-> r.status, id |-> r.id]

LevelNext == NewLevel \/ LevelDimension

SpecLevel == LevelSpecInit /\ [][LevelNext]_vars

\* what the documentation says is kept for a nonadditive argument
NonadditiveNormal(n) ==
    IF n \in {None, "none"} THEN None
    ELSE IF n \in {"all", "any"} THEN "all"
    ELSE n

\* C3 as stated: Level and Dimension construction store the nonadditive value
\* normalized: absent or "none" as absent, "all" or "any" as "all", "time" as
\* "time"; any other value fails with a model error.
C3_AsStated ==
    /\ (call.op = "Level" /\ ret.status = "ok") =>
          levels[ret.id].nonadditive = NonadditiveNormal(call.nonadditive)
    /\ (call.op = "Dimension" /\ ret.status = "ok") =>
          dims[ret.id].nonadditive = NonadditiveNormal(call.nonadditive)
    /\ (call.op \in {"Level", "Dimension"}
            /\ call.nonadditive \notin {None, "none", "all", "any", "time"}) =>
          ret.status = "ModelError"

\* C6: a Level built from a non-empty attribute list with no explicit key,
\* label_attribute or order_attribute has key = the first attribute,
\* order_attribute = the first attribute and label_attribute = the second
\* attribute when there are at least two, else the key; with an empty
\* attribute list the construction fails with a model error.
C6_LevelDefaults ==
    (/\ call.op = "Level"
     /\ call.key = None
     /\ call.label_attribute = None
     /\ call.order_attribute = None) =>
        LET as == call.attributes
        IN  /\ as = <<>> => ret.status = "ModelError"
            /\ (as # <<>> /\ call.nonadditive # "bogus") => ret.status = "ok"
            /\ ret.status = "ok" =>
                  /\ levels[ret.id].attributes = as
                  /\ levels[ret.id].key = as[1]
                  /\ levels[ret.id].order_attribute = as[1]
                  /\ levels[ret.id].label_attribute =
                        (IF Len(as) >= 2 THEN as[2] ELSE levels[ret.id].key)

\* a level of two different attributes was built with nothing explicit
C6_Witness ==
    /\ call.op = "Level"
    /\ call.key = None
    /\ call.label_attribute = None
    /\ call.order_attribute = None
    /\ Len(call.attributes) = 2
    /\ call.attributes[1] # call.attributes[2]
    /\ ret.status = "ok"
    /\ levels[ret.id].label_attribute = call.attributes[2]

---------------------------------------------------------------------------
\* The levels the Dimension specifications start from: year with the
\* attributes k and n, month with another attribute named k.

PoolAttrs == <<"k", "n", "k">>

PoolHeap ==
    MakeLevels([EmptyHeap EXCEPT !.attrs = [i \in 1..Len(PoolAttrs) |-> Attribute(PoolAttrs[i])]],
               << [name |-> "year", attributes |-> <<1, 2>>],
                  [name |-> "month", attributes |-> <<3>>] >>)

---------------------------------------------------------------------------
\* Specification SpecDimension: hierarchies named default or alt are built
\* over the two levels, then the Dimension constructor is called once.

HierNames == {"default", "alt"}
\* default_hierarchy_name arguments: absent, or a name
DefaultArgs == {None, "default", "alt", "zzz"}

DimensionSpecInit ==
    /\ attrs = PoolHeap.attrs
    /\ levels = PoolHeap.levels
    /\ hiers = <<>>
    /\ dims = <<>>
    /\ call = NoCall
    /\ ret = NoRet
    /\ NoRegistry

\* Hierarchy(name, levels)
NewHierarchy ==
    /\ Len(hiers) < MaxHiers
    /\ call.op # "Dimension"
    /\ \E name \in HierNames, ls \in SeqsUpTo(1..Len(levels), MaxHierLevels) :
          LET r == HierarchyInit(Heap, name, ls)
          IN  /\ SetHeap(r.h)
              /\ call' = [op |-> "Hierarchy", name |-> name, levels |-> ls]
              /\ ret' = [status |-> r.status, id |-> r.id]

\* Dimension("date", levels, hierarchies, default_hierarchy_name): the
\* hierarchies are the first few built, in the order they were built
NewDimension ==
    /\ call.op # "Dimension"
    /\ \E ls \in SeqsUpTo(1..Len(levels), MaxDimLevels),
          n \in 0..Len(hiers), dhn \in DefaultArgs :
          LET hs == [i \in 1..n |-> i]
              r  == DimensionInit(Heap, "date", ls, hs, dhn, 0, None, <<>>)
          IN  /\ SetHeap(r.h)
              /\ call' = [op |-> "Dimension", levels |-> ls, hierarchies |-> hs,
                          default_hierarchy_name |-> dhn, nonadditive |-> None,
                          attributes |-> <<>>]
              /\ ret' = [status |-> r.status, id |-> r.id]

\* Dimension("date", attributes=[a], levels=...): a flat dimension from attributes
NewFlatDimension ==
    /\ call.op # "Dimension"
    /\ \E a \in 1..Len(attrs), ls \in SeqsUpTo(1..Len(levels), 1), dhn \in DefaultArgs :
          LET r == DimensionInit(Heap, "date", ls, <<>>, dhn, 0, None, <<a>>)
          IN  /\ SetHeap(r.h)
              /\ call' = [op |-> "Dimension", levels |-> ls, hierarchies |-> <<>>,
                          default_hierarchy_name |-> dhn, nonadditive |-> None,
                          attributes |-> <<a>>]
              /\ ret' = [status |-> r.status, id |-> r.id]

DimensionNext == NewHierarchy \/ NewDimension \/ NewFlatDimension

SpecDimension == DimensionSpecInit /\ [][DimensionNext]_vars

\* a Dimension constructor call has returned a dimension
Built == call.op = "Dimension" /\ ret.status = "ok"

\* the names of the hierarchies of dimension d, in order
HierarchyNames(d) == HierNamesOf(Heap, dims[d].hierarchies)

\* C4 as stated: the default hierarchy name of a constructed Dimension is the
\* given name if a hierarchy has it, otherwise "default" if a hierarchy has
\* that name, otherwise the name of the first hierarchy; hierarchy() with no
\* argument returns that hierarchy.
C4_AsStated ==
    Built =>
        LET names == HierarchyNames(ret.id)
            given == call.default_hierarchy_name
            want  == IF given # None /\ given \in Range(names) THEN given
                     ELSE IF "default" \in Range(names) THEN "default"
                     ELSE names[1]
            dh    == hierarchy(Heap, ret.id, None)
        IN  /\ dims[ret.id].default_hierarchy_name = want
            /\ dh \in Range(dims[ret.id].hierarchies)
            /\ hiers[dh].name = want

\* C4 amended: the default hierarchy name of a constructed Dimension is the
\* name of one of its hierarchies: the given name if a hierarchy has it;
\* "default" if no name was given and a hierarchy has that name; otherwise
\* (also for a given name that no hierarchy has, even when one is named
\* "default") the name of the first hierarchy.  hierarchy() with no argument
\* returns the hierarchy of that name.
C4_DefaultHierarchy ==
    Built =>
        LET names == HierarchyNames(ret.id)
            given == call.default_hierarchy_name
            want  == IF given # None /\ given \in Range(names) THEN given
                     ELSE IF given = None /\ "default" \in Range(names) THEN "default"
                     ELSE names[1]
            dh    == hierarchy(Heap, ret.id, None)
        IN  /\ dims[ret.id].default_hierarchy_name = want
            /\ want \in Range(names)
            /\ dh \in Range(dims[ret.id].hierarchies)
            /\ hiers[dh].name = want

\* a dimension was built with a default name no hierarchy has, over the
\* hierarchies alt and default in that order, and alt became its default
C4_Witness ==
    /\ Built
    /\ call.default_hierarchy_name = "zzz"
    /\ HierarchyNames(ret.id) = <<"alt", "default">>
    /\ dims[ret.id].default_hierarchy_name = "alt"

\* C5: a Dimension built from a non-empty list of levels with no explicit
\* hierarchies has exactly one hierarchy, named "default", whose levels are
\* the given levels in the given order, and its default_hierarchy_name is
\* "default".
C5_ImplicitHierarchy ==
    (Built /\ call.levels # <<>> /\ call.hierarchies = <<>>) =>
        /\ dims[ret.id].levels = call.levels
        /\ Len(dims[ret.id].hierarchies) = 1
        /\ hiers[dims[ret.id].hierarchies[1]].name = "default"
        /\ hiers[dims[ret.id].hierarchies[1]].levels = call.levels
        /\ dims[ret.id].default_hierarchy_name = "default"
        /\ hierarchy(Heap, ret.id, None) = dims[ret.id].hierarchies[1]

\* a dimension was built from the levels month, year with no hierarchies,
\* though a default hierarchy name was asked for
C5_Witness ==
    /\ Built
    /\ call.levels = <<2, 1>>
    /\ call.hierarchies = <<>>
    /\ call.default_hierarchy_name = "alt"
    /\ Len(dims[ret.id].hierarchies) = 1

---------------------------------------------------------------------------
\* Dimension.clone

\* None where a list of names is expected
NoneList == <<None>>

\* the bound of specification SpecOwn: Dimension objects created
MaxDims == 2

RECURSIVE Distinct(_)
\* the members of s in the order of their first occurrence
Distinct(s) ==
    IF s = <<>> THEN <<>>
    ELSE IF s[Len(s)] \in Range(SubSeq(s, 1, Len(s) - 1))
    THEN Distinct(SubSeq(s, 1, Len(s) - 1))
    ELSE Append(Distinct(SubSeq(s, 1, Len(s) - 1)), s[Len(s)])

\* Attribute.__eq__: attributes are compared by what they describe, not by
\* their owner
Attribute_eq(h, a, b) == h.attrs[a].name = h.attrs[b].name

\* Level.__eq__
Level_eq(h, l1, l2) ==
    /\ h.levels[l1].name = h.levels[l2].name
    /\ Attribute_eq(h, h.levels[l1].key, h.levels[l2].key)
    /\ Attribute_eq(h, h.levels[l1].label_attribute, h.levels[l2].label_attribute)
    /\ Attribute_eq(h, h.levels[l1].order_attribute, h.levels[l2].order_attribute)
    /\ h.levels[l1].nonadditive = h.levels[l2].nonadditive
    /\ Len(h.levels[l1].attributes) = Len(h.levels[l2].attributes)
    /\ \A i \in 1..Len(h.levels[l1].attributes) :
          Attribute_eq(h, h.levels[l1].attributes[i], h.levels[l2].attributes[i])

\* Attribute.__deepcopy__: a new attribute of the same description.  Whether
\* the copy starts with the owner of the original (keeps) or with none is
\* open: clone disowns the copies it uses in either case.
Attribute_deepcopy(a, keeps) ==
    IF keeps THEN a ELSE [a EXCEPT !.dimension = 0, !.ref = <<a.name>>]

\* copy.deepcopy(attributes, memo) over the attributes olds of one hierarchy:
\* one copy per attribute object, appended to the heap in the order of olds
copy_attributes(h, olds, keeps) ==
    [h EXCEPT !.attrs =
        h.attrs \o [i \in 1..Len(olds) |-> Attribute_deepcopy(h.attrs[olds[i]], keeps)]]

\* the memo of one deepcopy: the copy of attribute a, the copies of olds
\* being the attributes after position base
memo(olds, base, a) == base + IndexOf(olds, a) + 1

RECURSIVE Level_deepcopy(_, _, _, _)
\* Level.__deepcopy__ for each of the levels ls in order: Level(name,
\* attributes=<copies>, key=key.name, order_attribute=order_attribute.name,
\* label_attribute=label_attribute.name, nonadditive=nonadditive)
Level_deepcopy(h, ls, olds, base) ==
    IF ls = <<>> THEN h
    ELSE Level_deepcopy(
            LevelInit(h, h.levels[Head(ls)].name,
                      [i \in 1..Len(h.levels[Head(ls)].attributes) |->
                          memo(olds, base, h.levels[Head(ls)].attributes[i])],
                      h.attrs[h.levels[Head(ls)].key].name,
                      h.attrs[h.levels[Head(ls)].order_attribute].name,
                      h.attrs[h.levels[Head(ls)].label_attribute].name,
                      h.levels[Head(ls)].nonadditive).h,
            Tail(ls), olds, base)

\* a copy of the hierarchy that shares the level objects of the original
Hierarchy_copy(h, hid, keeps) ==
    HierarchyInit(h, h.hiers[hid].name, h.hiers[hid].levels).h

\* Hierarchy.__deepcopy__ with a memo of its own: the hierarchy's levels and
\* their attributes are copied, and a hierarchy of the same name is built
\* over the copies
Hierarchy_deepcopy(h, hid, keeps) ==
    HierarchyInit(
        Level_deepcopy(copy_attributes(h, Distinct(all_attributes(h, h.hiers[hid].levels)), keeps),
                       h.hiers[hid].levels,
                       Distinct(all_attributes(h, h.hiers[hid].levels)),
                       Len(h.attrs)),
        h.hiers[hid].name,
        [i \in 1..Len(h.hiers[hid].levels) |-> Len(h.levels) + i]).h

RECURSIVE deepcopy_hierarchies(_, _, _)
\* [copy.deepcopy(hier) for hier in linked]
deepcopy_hierarchies(h, linked, keeps) ==
    IF linked = <<>> THEN h
    ELSE deepcopy_hierarchies(Hierarchy_deepcopy(h, Head(linked), keeps), Tail(linked), keeps)

RECURSIVE hierarchy_levels(_, _)
\* the levels of the hierarchies hs, hierarchy after hierarchy
hierarchy_levels(h, hs) ==
    IF hs = <<>> THEN <<>>
    ELSE h.hiers[Head(hs)].levels \o hierarchy_levels(h, Tail(hs))

RECURSIVE first_by_name(_, _)
\* of the levels ls, the first of each name ("if level.name in seen: continue")
first_by_name(h, ls) ==
    IF ls = <<>> THEN <<>>
    ELSE IF \E i \in 1..(Len(ls) - 1) : h.levels[ls[i]].name = h.levels[ls[Len(ls)]].name
    THEN first_by_name(h, SubSeq(ls, 1, Len(ls) - 1))
    ELSE Append(first_by_name(h, SubSeq(ls, 1, Len(ls) - 1)), ls[Len(ls)])

\* clone, "Get only levels used in the hierarchies"
clone_levels(h, cloned) == first_by_name(h, hierarchy_levels(h, cloned))

\* clone, "Dis-own the level attributes": attribute.dimension = None for the
\* attributes of the levels lv
disown(h, lv) ==
    [h EXCEPT !.attrs =
        [a \in 1..Len(h.attrs) |->
            IF a \in Range(all_attributes(h, lv)) THEN set_dimension(h, h.attrs[a], 0)
            ELSE h.attrs[a]]]

\* clone, the default hierarchy name handed to the constructor
clone_default(h, self, cloned, default_hierarchy_name) ==
    IF default_hierarchy_name \notin {None, ""} THEN default_hierarchy_name
    ELSE IF \E i \in 1..Len(cloned) :
               h.hiers[cloned[i]].name = h.dims[self].default_hierarchy_name
    THEN h.dims[self].default_hierarchy_name
    ELSE h.hiers[cloned[1]].name

\* clone with the copies cloned made: the levels are collected and disowned
\* and Dimension(name, levels, cloned, default, master=self, nonadditive)
\* is constructed
clone_construct(h, self, cloned, nonadditive, default_hierarchy_name) ==
    described(
        DimensionInit(disown(h, clone_levels(h, cloned)),
                      h.dims[self].name,
                      clone_levels(h, cloned),
                      cloned,
                      clone_default(h, self, cloned, default_hierarchy_name),
                      self,
                      IF nonadditive \notin {None, ""} THEN nonadditive
                      ELSE h.dims[self].nonadditive,
                      <<>>),
        [label |-> h.dims[self].label, description |-> h.dims[self].description,
         info |-> h.dims[self].info, role |-> h.dims[self].role,
         cardinality |-> h.dims[self].cardinality, category |-> None])

\* every hierarchy of the source is linked, whatever was asked for
clone_selected_all(h, self, hierarchies, exclude_hierarchies) ==
    h.dims[self].hierarchies

\* clone, the hierarchies linked: those named in hierarchies (0 where
\* self.hierarchy(name) raises), else those not named in exclude_hierarchies,
\* else all
clone_selected(h, self, hierarchies, exclude_hierarchies) ==
    IF hierarchies # NoneList /\ hierarchies # <<>>
    THEN [i \in 1..Len(hierarchies) |-> hierarchy(h, self, hierarchies[i])]
    ELSE IF exclude_hierarchies # NoneList /\ exclude_hierarchies # <<>>
    THEN SelectSeq(h.dims[self].hierarchies,
                   LAMBDA x : h.hiers[x].name \notin Range(exclude_hierarchies))
    ELSE h.dims[self].hierarchies

\* clone once the hierarchies linked are known: they are copied one by one
clone_linked(h, self, linked, nonadditive, default_hierarchy_name, keeps) ==
    IF \E i \in 1..Len(linked) : linked[i] = 0
    THEN [status |-> "ModelError", h |-> h, id |-> 0]
    ELSE IF linked = <<>>
    THEN [status |-> "ModelError", h |-> h, id |-> 0]
    ELSE clone_construct(deepcopy_hierarchies(h, linked, keeps), self,
                         [i \in 1..Len(linked) |-> Len(h.hiers) + i],
                         nonadditive, default_hierarchy_name)

\* Dimension.clone(hierarchies, exclude_hierarchies, nonadditive,
\* default_hierarchy_name): [status, h, id]
clone(h, self, hierarchies, exclude_hierarchies, nonadditive, default_hierarchy_name, keeps) ==
    IF hierarchies = <<>>
    THEN [status |-> "ModelInconsistencyError", h |-> h, id |-> 0]
    ELSE clone_linked(h, self,
                      clone_selected(h, self, hierarchies, exclude_hierarchies),
                      nonadditive, default_hierarchy_name, keeps)

---------------------------------------------------------------------------
\* Dimension.validate

\* the attributes of the levels lv in the order validate visits them, each
\* with the name of its level
visited(h, lv) ==
    [p \in 1..Len(all_attributes(h, lv)) |->
        [attribute |-> all_attributes(h, lv)[p],
         level |-> h.levels[lv[CHOOSE i \in 1..Len(lv) :
                      /\ Len(all_attributes(h, SubSeq(lv, 1, i - 1))) < p
                      /\ p <= Len(all_attributes(h, SubSeq(lv, 1, i)))]].name]]

\* first_occurence[attr_name] when the attribute at position p is visited:
\* the level of the first attribute visited with that reference
first_occurence(h, vs, p) ==
    vs[CHOOSE q \in 1..p :
          /\ h.attrs[vs[q].attribute].ref = h.attrs[vs[p].attribute].ref
          /\ \A r \in 1..(q - 1) :
                h.attrs[vs[r].attribute].ref # h.attrs[vs[p].attribute].ref].level

\* references already seen are not looked for
attribute_results_unseen(h, self, vs, p) ==
    IF h.attrs[vs[p].attribute].dimension # self
    THEN <<[severity |-> "error", what |-> "Dimension of attribute does not match",
            attribute |-> vs[p].attribute, level |-> vs[p].level]>>
    ELSE <<>>

\* validate, the diagnostics for the attribute visited at position p
attribute_results(h, self, vs, p) ==
    (IF \E q \in 1..(p - 1) :
            h.attrs[vs[q].attribute].ref = h.attrs[vs[p].attribute].ref
     THEN <<[severity |-> "error", what |-> "Duplicate attribute",
             attribute |-> vs[p].attribute, level |-> vs[p].level,
             first |-> first_occurence(h, vs, p)]>>
     ELSE <<>>)
    \o
    (IF h.attrs[vs[p].attribute].dimension # self
     THEN <<[severity |-> "error", what |-> "Dimension of attribute does not match",
             attribute |-> vs[p].attribute, level |-> vs[p].level]>>
     ELSE <<>>)

\* validate, the diagnostics for a level before its attributes are visited
level_results(h, l) ==
    IF h.attrs[h.levels[l].key].name
          \notin {h.attrs[h.levels[l].attributes[i]].name :
                     i \in 1..Len(h.levels[l].attributes)}
    THEN <<[severity |-> "error", what |-> "Key is not in level's attribute list",
            level |-> h.levels[l].name]>>
    ELSE <<>>

RECURSIVE attributes_results(_, _, _, _, _)
\* validate, "for attribute in level.attributes": the attributes visited at
\* the positions from..to
attributes_results(h, self, vs, from, to) ==
    IF from > to THEN <<>>
    ELSE attribute_results(h, self, vs, from)
         \o attributes_results(h, self, vs, from + 1, to)

RECURSIVE levels_results(_, _, _, _, _)
\* validate, "for level_name, level in self._levels.items()": the
\* diagnostics of the levels from the i-th on, p attributes having been visited
levels_results(h, self, lv, i, p) ==
    IF i > Len(lv) THEN <<>>
    ELSE level_results(h, lv[i])
         \o attributes_results(h, self, visited(h, lv), p + 1,
                               p + Len(h.levels[lv[i]].attributes))
         \o levels_results(h, self, lv, i + 1, p + Len(h.levels[lv[i]].attributes))

\* validate, the diagnostics about the hierarchies
hierarchies_results(h, self) ==
    (IF h.dims[self].hierarchies = <<>>
     THEN IF is_flat(h, self)
          THEN <<[severity |-> "default", what |-> "No hierarchies, flat level will be used"]>>
          ELSE <<[severity |-> "error", what |-> "No hierarchies"]>>
     ELSE IF /\ h.dims[self].default_hierarchy_name \in {None, ""}
             /\ Len(h.dims[self].hierarchies) > 1
             /\ "default" \notin Range(HierNamesOf(h, h.dims[self].hierarchies))
          THEN <<[severity |-> "error", what |-> "No default hierarchy specified"]>>
          ELSE <<>>)
    \o
    (IF /\ h.dims[self].default_hierarchy_name \notin {None, ""}
        /\ h.dims[self].default_hierarchy_name
              \notin Range(HierNamesOf(h, h.dims[self].hierarchies))
     THEN <<[severity |-> "error", what |-> "Default hierarchy does not exist"]>>
     ELSE <<>>)

\* Dimension.validate(): the list of diagnostics
validate(h, self) ==
    IF h.dims[self].levels = <<>>
    THEN <<[severity |-> "error", what |-> "No levels"]>>
    ELSE hierarchies_results(h, self)
         \o levels_results(h, self, h.dims[self].levels, 1, 0)

---------------------------------------------------------------------------
\* Specification SpecOwn: over the levels year and month and the hierarchies
\* default = [year, month], alt = [year] and fiscal = [year, month],
\* dimensions are constructed, cloned and validated, up to MaxDims Dimension
\* objects in all.

OwnHeap ==
    MakeHierarchies(PoolHeap,
                    << [name |-> "default", levels |-> <<1, 2>>],
                       [name |-> "alt", levels |-> <<1>>],
                       [name |-> "fiscal", levels |-> <<1, 2>>] >>)

\* the lists of hierarchies a Dimension is constructed with
OwnHierarchies == {<<>>, <<1>>, <<2>>, <<1, 2>>, <<2, 3>>}
\* the hierarchies argument of clone, and its exclude_hierarchies argument
\* (given when hierarchies is not)
CloneArgs == {<<>>, <<"default">>, <<"alt">>, <<"zzz">>, <<"default", "alt">>, <<"alt", "default">>, <<"default", "default">>}
ExcludeArgs == {NoneList, <<"alt">>, <<"default", "alt">>}
CloneCalls ==
    [hierarchies : CloneArgs, exclude_hierarchies : {NoneList}]
        \cup [hierarchies : {NoneList}, exclude_hierarchies : ExcludeArgs]

OwnInit ==
    /\ attrs = OwnHeap.attrs
    /\ levels = OwnHeap.levels
    /\ hiers = OwnHeap.hiers
    /\ dims = <<>>
    /\ call = NoCall
    /\ ret = NoRet
    /\ NoRegistry

\* the owners of the attributes of the levels ls
owners(h, ls) ==
    [i \in 1..Len(all_attributes(h, ls)) |-> h.attrs[all_attributes(h, ls)[i]].dimension]

\* no call was made yet, or the latest call returned, or it raised after
\* changing the object graph: a call that raised without effect has left
\* the state the program was in before it, and is not followed up
Effective ==
    IF call.op = "none" THEN TRUE
    ELSE IF ret.status = "ok" THEN TRUE
    ELSE call.before # Heap

\* Dimension("date", levels, hierarchies) over the levels year and month
OwnDimension ==
    /\ Len(dims) < MaxDims
    /\ Effective
    /\ \E ls \in SeqsUpTo(1..Len(OwnHeap.levels), MaxDimLevels), hs \in OwnHierarchies :
          LET r == DimensionInit(Heap, "date", ls, hs, None, 0, None, <<>>)
          IN  /\ SetHeap(r.h)
              /\ call' = [op |-> "Dimension", levels |-> ls, hierarchies |-> hs,
                          default_hierarchy_name |-> None, nonadditive |-> None,
                          attributes |-> <<>>, owners |-> owners(Heap, ls),
                          before |-> Heap]
              /\ ret' = [status |-> r.status, id |-> r.id]

\* d.clone(hierarchies, exclude_hierarchies) for a constructed dimension d
Clone ==
    /\ Len(dims) < MaxDims
    /\ Effective
    /\ \E d \in 1..Len(dims), args \in CloneCalls, keeps \in BOOLEAN :
          /\ dims[d].ok
          /\ LET r == clone(Heap, d, args.hierarchies, args.exclude_hierarchies,
                            None, None, keeps)
             IN  /\ SetHeap(r.h)
                 /\ call' = [op |-> "clone", self |-> d,
                             hierarchies |-> args.hierarchies,
                             exclude_hierarchies |-> args.exclude_hierarchies,
                             before |-> Heap]
                 /\ ret' = [status |-> r.status, id |-> r.id]

\* d.validate() for a constructed dimension d
Validate ==
    /\ call.op # "validate"
    /\ \E d \in 1..Len(dims) :
          /\ dims[d].ok
          /\ UNCHANGED <<attrs, levels, hiers, dims, finder, exts, creates, threads>>
          /\ call' = [op |-> "validate", self |-> d, before |-> Heap]
          /\ ret' = [status |-> "ok", results |-> validate(Heap, d)]

OwnNext == OwnDimension \/ Clone \/ Validate

SpecOwn == OwnInit /\ [][OwnNext]_vars

\* the attributes of the levels of dimension d
DimensionAttributes(d) == Range(all_attributes(Heap, dims[d].levels))

\* C7: a Dimension construction succeeds only if no attribute of the levels
\* it is given is owned by a different dimension, it fails with a model
\* error when one is, and every attribute of every level of a constructed
\* dimension (a cloned one too) has that dimension as its owner.
C7_Ownership ==
    /\ Built => \A i \in 1..Len(call.owners) : call.owners[i] = 0
    /\ (call.op = "Dimension" /\ \E i \in 1..Len(call.owners) : call.owners[i] # 0)
          => ret.status = "ModelError"
    /\ \A d \in 1..Len(dims) :
          dims[d].ok => \A a \in DimensionAttributes(d) : attrs[a].dimension = d

\* a second dimension was constructed over month while the first one owns
\* the attributes of year
C7_Witness ==
    /\ Built
    /\ ret.id = 2
    /\ dims[1].ok
    /\ dims[1].levels = <<1>>
    /\ call.levels = <<2>>
    /\ attrs[1].dimension = 1
    /\ attrs[3].dimension = 2

\* C8 as stated: in every Dimension produced by the constructor or by clone,
\* every level of every hierarchy of the dimension is one of the dimension's
\* own levels.
C8_AsStated ==
    \A d \in 1..Len(dims) :
        dims[d].ok =>
            \A i \in 1..Len(dims[d].hierarchies) :
                Range(hiers[dims[d].hierarchies[i]].levels) \subseteq Range(dims[d].levels)

\* C9 as stated: in every constructed Dimension no two attributes across its
\* levels have the same qualified reference.
C9_AsStated ==
    \A d \in 1..Len(dims) :
        dims[d].ok =>
            \A a, b \in DimensionAttributes(d) :
                a # b => attrs[a].ref # attrs[b].ref

\* clone(hierarchies=H) was called on a dimension, H a non-empty list of
\* names of hierarchies of that dimension
CloneOfNames ==
    /\ call.op = "clone"
    /\ call.hierarchies # NoneList
    /\ call.hierarchies # <<>>
    /\ \A i \in 1..Len(call.hierarchies) :
          hierarchy(call.before, call.self, call.hierarchies[i]) # 0

\* the hierarchies of the source that the names given to clone select
Selected ==
    [i \in 1..Len(call.hierarchies) |->
        hierarchy(call.before, call.self, call.hierarchies[i])]

\* the clone returned has the hierarchies named in the call, in that order
\* and each with the level names of the source's hierarchy; its master is
\* the source; its levels are, by name, the levels the selected hierarchies
\* use; its levels and their attributes are objects that did not exist before
\* the call, each level equal (Level.__eq__) to the level of that name of a
\* selected hierarchy
CloneAsSelected ==
    /\ ret.status = "ok"
    /\ dims[ret.id].ok
    /\ HierarchyNames(ret.id) = call.hierarchies
    /\ \A i \in 1..Len(call.hierarchies) :
          LevelNamesOf(Heap, hiers[dims[ret.id].hierarchies[i]].levels)
              = LevelNamesOf(Heap, hiers[Selected[i]].levels)
    /\ dims[ret.id].master = call.self
    /\ LevelNamesOf(Heap, dims[ret.id].levels)
          = Distinct(LevelNamesOf(Heap, hierarchy_levels(Heap, Selected)))
    /\ \A l \in Range(dims[ret.id].levels) :
          /\ l > Len(call.before.levels)
          /\ \E m \in Range(hierarchy_levels(Heap, Selected)) : Level_eq(Heap, l, m)
    /\ \A a \in DimensionAttributes(ret.id) : a > Len(call.before.attrs)

\* C10 as stated: clone(hierarchies=H) for a non-empty list H of existing
\* hierarchy names yields a dimension whose hierarchy names are exactly H,
\* whose master is the source, whose levels are the levels used by the
\* selected hierarchies, and whose levels and attributes are new objects
\* equal in value to the source's.
C10_AsStated == CloneOfNames => CloneAsSelected

\* C10 amended: the same for a list H that names no hierarchy twice; for a
\* list that repeats a name clone fails with a model error.
C10_CloneSelected ==
    /\ (CloneOfNames /\ NoDup(call.hierarchies)) => CloneAsSelected
    /\ (CloneOfNames /\ ~NoDup(call.hierarchies)) => ret.status = "ModelError"

\* a dimension over year and month with the hierarchies default and alt was
\* cloned with hierarchies=["alt"]: the clone has the one level year
C10_Witness ==
    /\ CloneOfNames
    /\ call.hierarchies = <<"alt">>
    /\ HierNamesOf(call.before, call.before.dims[call.self].hierarchies) = <<"default", "alt">>
    /\ dims[call.self].levels = <<1, 2>>
    /\ ret.status = "ok"
    /\ LevelNamesOf(Heap, dims[ret.id].levels) = <<"year">>

\* validate() has returned the diagnostics of a dimension
Validated == call.op = "validate" /\ ret.status = "ok"

\* C11 as stated: validate() reports an error when the dimension has more than
\* one hierarchy, none of them named "default", and was constructed without
\* a default hierarchy name (here: by the constructor, which is given none).
C11_AsStated ==
    (/\ Validated
     /\ dims[call.self].master = 0
     /\ Len(dims[call.self].hierarchies) > 1
     /\ "default" \notin Range(HierarchyNames(call.self)))
        => \E i \in 1..Len(ret.results) :
              /\ ret.results[i].severity = "error"
              /\ ret.results[i].what = "No default hierarchy specified"

\* two attributes of different levels of dimension d have the same reference
SharedReference(d) ==
    \E i, j \in 1..Len(dims[d].levels) :
        /\ i < j
        /\ \E a \in Range(levels[dims[d].levels[i]].attributes),
              b \in Range(levels[dims[d].levels[j]].attributes) :
              attrs[a].ref = attrs[b].ref

\* C12: validate() on a dimension in which two distinct levels each hold an
\* attribute with the same qualified reference returns a list holding an
\* error diagnostic that names the duplicate attribute, the level where the
\* reference recurs and the different, earlier level where it first occurred.
C12_DuplicateReported ==
    (Validated /\ SharedReference(call.self)) =>
        \E i \in 1..Len(ret.results) :
            LET r == ret.results[i]
            IN  /\ r.severity = "error"
                /\ r.what = "Duplicate attribute"
                /\ \E m, n \in 1..Len(dims[call.self].levels) :
                      /\ m < n
                      /\ levels[dims[call.self].levels[n]].name = r.level
                      /\ levels[dims[call.self].levels[m]].name = r.first
                      /\ r.attribute \in Range(levels[dims[call.self].levels[n]].attributes)
                      /\ \E a \in Range(levels[dims[call.self].levels[m]].attributes) :
                            attrs[a].ref = attrs[r.attribute].ref

\* the dimension over month and year, whose attributes named k share the
\* reference date.k, was validated: one error, for month's k recurring in year
C12_Witness ==
    /\ Validated
    /\ dims[call.self].levels = <<2, 1>>
    /\ attrs[1].ref = attrs[3].ref
    /\ \E i \in 1..Len(ret.results) :
          /\ ret.results[i].what = "Duplicate attribute"
          /\ ret.results[i].attribute = 1
          /\ ret.results[i].level = "year"
          /\ ret.results[i].first = "month"

---------------------------------------------------------------------------
\* Dimension.from_metadata
\*
\* A metadata dictionary is a function from the keys it has to their values.
\* An entry of a list of levels or of hierarchies is a record whose field
\* bare tells whether it is a bare name (a string) or a dictionary; the info
\* dictionary is the set of its keys.

\* metadata.get(key, default)
Get(md, key, default) == IF key \in DOMAIN md THEN md[key] ELSE default

\* truth value of an optional string
Truthy(v) == v \notin {None, ""}

Fail(e, h) == [status |-> e, h |-> h, id |-> 0]

\* expand_level_metadata: a bare name becomes a dictionary with the name as
\* its only attribute, and so does a dictionary without attributes
expand_level_metadata(lmd) ==
    [bare |-> FALSE, name |-> lmd.name,
     attributes |-> IF lmd.bare \/ lmd.attributes = <<>> THEN <<lmd.name>>
                    ELSE lmd.attributes]

\* expand_dimension_metadata, "Fix levels": the list of level dictionaries,
\* empty when there is none
expand_dimension_levels(md, expand_levels) ==
    IF Get(md, "levels", <<>>) = <<>> /\ expand_levels
    THEN <<expand_level_metadata(
              [bare |-> FALSE, name |-> md.name,
               attributes |-> Get(md, "attributes", <<>>)])>>
    ELSE [i \in 1..Len(Get(md, "levels", <<>>)) |->
             expand_level_metadata(md.levels[i])]

\* expand_dimension_metadata, "Fix hierarchies": the list of hierarchies,
\* empty when there is none
expand_dimension_hierarchies(md) ==
    IF Get(md, "hierarchy", <<>>) # <<>>
    THEN <<[bare |-> FALSE, name |-> "default", levels |-> md.hierarchy]>>
    ELSE Get(md, "hierarchies", <<>>)

\* expand_dimension_metadata(metadata, expand_levels): [status, md]
expand_dimension_metadata(md, expand_levels) ==
    IF "name" \notin DOMAIN md
    THEN [status |-> "ModelError", md |-> md]
    ELSE IF "hierarchy" \in DOMAIN md /\ "hierarchies" \in DOMAIN md
    THEN [status |-> "ModelInconsistencyError", md |-> md]
    ELSE [status |-> "ok",
          md |-> (IF expand_dimension_levels(md, expand_levels) # <<>>
                  THEN "levels" :> expand_dimension_levels(md, expand_levels)
                  ELSE <<>>)
                 @@ (IF expand_dimension_hierarchies(md) # <<>>
                     THEN "hierarchies" :> expand_dimension_hierarchies(md)
                     ELSE <<>>)
                 @@ md]

\* Level.from_metadata(metadata): new attributes of the names listed and a
\* level over them
Level_from_metadata(h, lmd) ==
    LevelInit([h EXCEPT !.attrs = h.attrs \o
                  [i \in 1..Len(expand_level_metadata(lmd).attributes) |->
                      Attribute(expand_level_metadata(lmd).attributes[i])]],
              lmd.name,
              [i \in 1..Len(expand_level_metadata(lmd).attributes) |-> Len(h.attrs) + i],
              None, None, None, None)

\* the level named name among the levels ls, 0 when there is none
level_named(h, ls, name) ==
    IF \E i \in 1..Len(ls) : h.levels[ls[i]].name = name
    THEN ls[CHOOSE i \in 1..Len(ls) :
               /\ h.levels[ls[i]].name = name
               /\ \A j \in (i + 1)..Len(ls) : h.levels[ls[j]].name # name]
    ELSE 0

RECURSIVE metadata_levels(_, _, _, _)
\* from_metadata, "Assure level inheritance": the levels for the entries
\* lmds, added to those in done: [status, h, levels]
metadata_levels(h, lmds, template, done) ==
    IF lmds = <<>> THEN [status |-> "ok", h |-> h, levels |-> done]
    ELSE IF Head(lmds).bare
    THEN IF template = 0
         THEN [status |-> "ModelError", h |-> h, levels |-> <<>>]
         ELSE IF level_named(h, h.dims[template].levels, Head(lmds).name) = 0
         THEN [status |-> "KeyError", h |-> h, levels |-> <<>>]
         ELSE metadata_levels(h, Tail(lmds), template,
                 Append(done, level_named(h, h.dims[template].levels, Head(lmds).name)))
    ELSE metadata_levels(Level_from_metadata(h, Head(lmds)).h, Tail(lmds), template,
                         Append(done, Len(h.levels) + 1))

RECURSIVE deepcopy_levels(_, _, _)
\* [copy.deepcopy(level) for level in template.levels]: each level is copied
\* with a memo of its own
deepcopy_levels(h, ls, keeps) ==
    IF ls = <<>> THEN h
    ELSE deepcopy_levels(
            Level_deepcopy(copy_attributes(h, Distinct(h.levels[Head(ls)].attributes), keeps),
                           <<Head(ls)>>, Distinct(h.levels[Head(ls)].attributes),
                           Len(h.attrs)),
            Tail(ls), keeps)

RECURSIVE copy_hierarchies(_, _, _)
\* from_metadata, the copies of the template's hierarchies hs over the
\* copied levels: Hierarchy(hier.name, [level_dict[level.name] ...])
copy_hierarchies(h, hs, copies) ==
    IF hs = <<>> THEN h
    ELSE copy_hierarchies(
            HierarchyInit(h, h.hiers[Head(hs)].name,
                [i \in 1..Len(h.hiers[Head(hs)].levels) |->
                    level_named(h, copies, h.levels[h.hiers[Head(hs)].levels[i]].name)]).h,
            Tail(hs), copies)

RECURSIVE create_hierarchies(_, _, _, _, _)
\* _create_hierarchies once levels_by_name is built: the hierarchies for
\* the entries hmds, added to those in done: [status, h, hierarchies]
create_hierarchies(h, hmds, lv, template, done) ==
    IF hmds = <<>> THEN [status |-> "ok", h |-> h, hierarchies |-> done]
    ELSE IF Head(hmds).bare
    THEN IF template = 0
         THEN [status |-> "ModelError", h |-> h, hierarchies |-> <<>>]
         ELSE IF hierarchy(h, template, Head(hmds).name) = 0
         THEN [status |-> "ModelError", h |-> h, hierarchies |-> <<>>]
         ELSE create_hierarchies(h, Tail(hmds), lv, template,
                 Append(done, hierarchy(h, template, Head(hmds).name)))
    ELSE IF \E i \in 1..Len(Head(hmds).levels) : level_named(h, lv, Head(hmds).levels[i]) = 0
    THEN [status |-> "KeyError", h |-> h, hierarchies |-> <<>>]
    ELSE IF HierarchyInit(h, Head(hmds).name,
                [i \in 1..Len(Head(hmds).levels) |->
                    level_named(h, lv, Head(hmds).levels[i])]).status # "ok"
    THEN [status |-> HierarchyInit(h, Head(hmds).name,
                        [i \in 1..Len(Head(hmds).levels) |->
                            level_named(h, lv, Head(hmds).levels[i])]).status,
          h |-> h, hierarchies |-> <<>>]
    ELSE create_hierarchies(
            HierarchyInit(h, Head(hmds).name,
                [i \in 1..Len(Head(hmds).levels) |->
                    level_named(h, lv, Head(hmds).levels[i])]).h,
            Tail(hmds), lv, template, Append(done, Len(h.hiers) + 1))

\* from_metadata, "Keep only hierarchies which include existing levels"
keep_hierarchies(h, hs, lv) ==
    SelectSeq(hs, LAMBDA x :
        \A i \in 1..Len(h.hiers[x].levels) :
            h.levels[h.hiers[x].levels[i]].name \in Range(LevelNamesOf(h, lv)))

\* from_metadata, "Recollect levels": the levels whose name a hierarchy uses
used_levels(h, hs, lv) ==
    SelectSeq(lv, LAMBDA l :
        h.levels[l].name \in Range(LevelNamesOf(h, hierarchy_levels(h, hs))))

\* what from_metadata starts from: the template's values, or none
inherited(h, template) ==
    IF template = 0
    THEN [default_hierarchy_name |-> None, label |-> None, description |-> None,
          info |-> {}, cardinality |-> None, role |-> None, category |-> None,
          nonadditive |-> None]
    ELSE [default_hierarchy_name |-> h.dims[template].default_hierarchy_name,
          label |-> h.dims[template].label,
          description |-> h.dims[template].description,
          info |-> h.dims[template].info,
          cardinality |-> h.dims[template].cardinality,
          role |-> h.dims[template].role,
          category |-> h.dims[template].category,
          nonadditive |-> h.dims[template].nonadditive]

\* from_metadata, the cardinality handed to the constructor
metadata_cardinality(md, inh) ==
    IF Truthy(Get(md, "cardinality", inh.cardinality))
    THEN Get(md, "cardinality", inh.cardinality)
    ELSE IF "high_cardinality" \in Get(md, "info", {}) THEN "high"
    ELSE Get(md, "cardinality", inh.cardinality)

\* from_metadata, the info handed to the constructor: metadata.get("info",
\* info), replaced by metadata.get("info", {}) when there is no cardinality
metadata_info(md, inh) ==
    IF Truthy(Get(md, "cardinality", inh.cardinality))
    THEN Get(md, "info", inh.info)
    ELSE Get(md, "info", {})

\* from_metadata, label ... category as handed to the constructor
metadata_description(md, inh) ==
    [label |-> Get(md, "label", inh.label),
     description |-> IF Truthy(Get(md, "description", None)) THEN md.description
                     ELSE inh.description,
     info |-> metadata_info(md, inh),
     role |-> Get(md, "role", inh.role),
     cardinality |-> metadata_cardinality(md, inh),
     category |-> Get(md, "category", inh.category)]

\* from_metadata, its last step: the levels used are kept and the
\* Dimension is constructed
from_metadata_construct(h, md, template, lv, hs) ==
    described(
        DimensionInit(h, md.name, used_levels(h, hs, lv), hs,
                      Get(md, "default_hierarchy_name",
                          inherited(h, template).default_hierarchy_name),
                      0,
                      Get(md, "nonadditive", inherited(h, template).nonadditive),
                      <<>>),
        metadata_description(md, inherited(h, template)))

\* from_metadata, "Create single default hierarchy" when there is none
from_metadata_default(h, md, template, lv, hs) ==
    IF hs # <<>> THEN from_metadata_construct(h, md, template, lv, hs)
    ELSE IF HierarchyInit(h, "default", lv).status # "ok"
    THEN Fail(HierarchyInit(h, "default", lv).status, h)
    ELSE from_metadata_construct(HierarchyInit(h, "default", lv).h, md, template,
                                 lv, <<Len(h.hiers) + 1>>)

\* from_metadata, "Hierarchies": r is the outcome of _create_hierarchies
from_metadata_created(r, md, template, lv) ==
    IF r.status # "ok" THEN Fail(r.status, r.h)
    ELSE from_metadata_default(r.h, md, template, lv, r.hierarchies)

\* from_metadata, "Hierarchies"
from_metadata_hierarchies(h, md, template, lv, hs) ==
    IF "hierarchies" \in DOMAIN md
    THEN IF ~object_dict(LevelNamesOf(h, lv))
         THEN Fail("ModelError", h)
         ELSE from_metadata_created(create_hierarchies(h, md.hierarchies, lv, template, <<>>),
                                    md, template, lv)
    ELSE from_metadata_default(h, md, template, lv, keep_hierarchies(h, hs, lv))

\* from_metadata, "Levels": r is the outcome of the loop over the entries
from_metadata_levelled(r, md, template, hs) ==
    IF r.status # "ok" THEN Fail(r.status, r.h)
    ELSE from_metadata_hierarchies(r.h, md, template, r.levels, hs)

\* from_metadata, "Levels"
from_metadata_levels(h, md, template, lv, hs) ==
    IF "levels" \in DOMAIN md
    THEN from_metadata_levelled(metadata_levels(h, md.levels, template, <<>>),
                                md, template, hs)
    ELSE from_metadata_hierarchies(h, md, template, lv, hs)

\* from_metadata from "Fix the metadata" on: e is the expanded metadata
from_metadata_expanded(h, e, template, lv, hs) ==
    IF e.status # "ok" THEN Fail(e.status, h)
    ELSE from_metadata_levels(h, e.md, template, lv, hs)

\* from_metadata with the template found: its levels are copied, and its
\* hierarchies are rebuilt over the copies
from_metadata_template(h, md, template, keeps) ==
    IF \E i \in 1..Len(h.dims[template].hierarchies) :
          \E l \in Range(h.hiers[h.dims[template].hierarchies[i]].levels) :
              level_named(h, h.dims[template].levels, h.levels[l].name) = 0
    THEN Fail("KeyError", h)
    ELSE from_metadata_expanded(
            copy_hierarchies(deepcopy_levels(h, h.dims[template].levels, keeps),
                             h.dims[template].hierarchies,
                             [i \in 1..Len(h.dims[template].levels) |-> Len(h.levels) + i]),
            expand_dimension_metadata(md, h.dims[template].levels = <<>>),
            template,
            [i \in 1..Len(h.dims[template].levels) |-> Len(h.levels) + i],
            [i \in 1..Len(h.dims[template].hierarchies) |-> Len(h.hiers) + i])

\* Dimension.from_metadata(metadata, templates): [status, h, id]
from_metadata(h, md, templates, keeps) ==
    IF "template" \in DOMAIN md
    THEN IF md.template \notin DOMAIN templates
         THEN Fail("TemplateRequired", h)
         ELSE from_metadata_template(h, md, templates[md.template], keeps)
    ELSE from_metadata_expanded(h, expand_dimension_metadata(md, TRUE), 0, <<>>, <<>>)

---------------------------------------------------------------------------
\* Specification SpecMetadata: a template dimension "date" over year and
\* month, with the hierarchies default and alt, is at hand, and
\* Dimension.from_metadata is called once.

\* the dictionaries with the one key k and a value of vals, and the empty one
Opt(k, vals) == {<<>>} \cup {k :> v : v \in vals}

BareEntry(name) == [bare |-> TRUE, name |-> name, attributes |-> <<>>]
DictEntry(name, attributes) == [bare |-> FALSE, name |-> name, attributes |-> attributes]

\* the value of "levels" and of "hierarchies" in the metadata
LevelsArgs ==
    {<<BareEntry("year")>>, <<DictEntry("year", <<"k", "n">>)>>,
     <<BareEntry("month"), DictEntry("day", <<>>)>>}
HierarchiesArgs ==
    {<<[bare |-> TRUE, name |-> "alt", levels |-> <<>>]>>,
     <<[bare |-> FALSE, name |-> "h", levels |-> <<"year">>]>>}

\* label, role, category and nonadditive, given together or not at all
Overrides ==
    {<<>>, [label |-> "Geo", role |-> "place", category |-> "c2", nonadditive |-> "all"]}

MetadataArgs ==
    {[name |-> "geo"] @@ t @@ l @@ hs @@ o @@ d @@ i @@ c @@ dhn :
        t \in Opt("template", {"date", "zzz"}), l \in Opt("levels", LevelsArgs),
        hs \in Opt("hierarchies", HierarchiesArgs), o \in Overrides,
        d \in Opt("description", {"", "text"}), i \in Opt("info", {{"m"}}),
        c \in Opt("cardinality", {"high"}),
        dhn \in Opt("default_hierarchy_name", {"alt", "zzz"})}

\* the template: Dimension("date", levels=[year, month], hierarchies=[default,
\* alt], default_hierarchy_name, label, description, info, role, cardinality,
\* category, nonadditive)
TemplateHeap(dhn, info, cardinality) ==
    described(DimensionInit(OwnHeap, "date", <<1, 2>>, <<1, 2>>, dhn, 0, "time", <<>>),
              [label |-> "Date", description |-> "calendar", info |-> info,
               role |-> "time", cardinality |-> cardinality, category |-> "c1"]).h

MetadataInit ==
    /\ \E info \in {{}, {"t"}}, cardinality \in {None, "low"} :
          /\ attrs = TemplateHeap(None, info, cardinality).attrs
          /\ levels = TemplateHeap(None, info, cardinality).levels
          /\ hiers = TemplateHeap(None, info, cardinality).hiers
          /\ dims = TemplateHeap(None, info, cardinality).dims
    /\ call = NoCall
    /\ ret = NoRet
    /\ NoRegistry

\* Dimension.from_metadata(metadata, templates={"date": <the template>})
FromMetadata ==
    /\ call = NoCall
    /\ \E md \in MetadataArgs, keeps \in BOOLEAN :
          LET r == from_metadata(Heap, md, [date |-> 1], keeps)
          IN  /\ SetHeap(r.h)
              /\ call' = [op |-> "from_metadata", metadata |-> md, before |-> Heap]
              /\ ret' = [status |-> r.status, id |-> r.id]

MetadataNext == FromMetadata

SpecMetadata == MetadataInit /\ [][MetadataNext]_vars

\* from_metadata has returned a dimension
FromMetadataBuilt == call.op = "from_metadata" /\ ret.status = "ok"

\* the names of the level entries given as bare names
BareLevelNames ==
    IF "levels" \in DOMAIN call.metadata
    THEN {call.metadata.levels[i].name :
             i \in {j \in 1..Len(call.metadata.levels) : call.metadata.levels[j].bare}}
    ELSE {}

\* C13 as stated: in from_metadata a level entry given as a bare name is
\* borrowed from the template's level of that name (the level the dimension
\* gets under that name equals the template's), and with no template in the
\* metadata a bare-name level entry fails with a model error.
C13_AsStated ==
    /\ (/\ FromMetadataBuilt
        /\ "template" \in DOMAIN call.metadata)
          => \A l \in Range(dims[ret.id].levels) :
                levels[l].name \in BareLevelNames =>
                    /\ level_named(Heap, dims[1].levels, levels[l].name) # 0
                    /\ Level_eq(Heap, l, level_named(Heap, dims[1].levels, levels[l].name))
    /\ (/\ call.op = "from_metadata"
        /\ "template" \notin DOMAIN call.metadata
        /\ BareLevelNames # {})
          => ret.status = "ModelError"

\* C14 as stated: from_metadata with a template gives the dimension, for each
\* of label, description, info, cardinality, role, category, nonadditive and
\* default hierarchy name, the metadata's value when the metadata has the key
\* and the template's value when it has not.
C14_AsStated ==
    (FromMetadataBuilt /\ "template" \in DOMAIN call.metadata) =>
        LET md == call.metadata
            d  == dims[ret.id]
            t  == call.before.dims[1]
        IN  /\ d.label = Get(md, "label", t.label)
            /\ d.description = Get(md, "description", t.description)
            /\ d.info = Get(md, "info", t.info)
            /\ d.cardinality = Get(md, "cardinality", t.cardinality)
            /\ d.role = Get(md, "role", t.role)
            /\ d.category = Get(md, "category", t.category)
            /\ d.nonadditive = Get(md, "nonadditive", t.nonadditive)
            /\ d.default_hierarchy_name
                  = Get(md, "default_hierarchy_name", t.default_hierarchy_name)

---------------------------------------------------------------------------
\* string_to_dimension_level.  A text is a sequence of characters.

\* the longest text given
MaxText == 4

\* characters matching [\w\d_], and characters at hand that do not
IdentChars == {"a", "_"}
OtherChars == {"@", ":", "-"}

RECURSIVE ident_run(_, _)
\* the number of characters the greedy [\w\d_]+ consumes from position from
\* (0: no match)
ident_run(text, from) ==
    IF from > Len(text) THEN 0
    ELSE IF text[from] \notin IdentChars THEN 0
    ELSE 1 + ident_run(text, from + 1)

\* an optional group (<mark>[\w\d_]+)? tried at position from: the number of
\* characters it consumes, 0 when it does not take part in the match
group_run(text, from, mark) ==
    IF from > Len(text) THEN 0
    ELSE IF text[from] # mark THEN 0
    ELSE IF ident_run(text, from + 1) = 0 THEN 0
    ELSE 1 + ident_run(text, from + 1)

\* the text a group captured, None when it did not take part
captured(text, from, n) ==
    IF n = 0 THEN NoneList ELSE SubSeq(text, from + 1, from + n - 1)

\* string_to_dimension_level(astring): re.match tries the pattern at the
\* start of the text and does not ask for its end
string_to_dimension_level(text) ==
    IF text = <<>> THEN [status |-> "ArgumentError"]
    ELSE IF ident_run(text, 1) = 0 THEN [status |-> "ArgumentError"]
    ELSE [status |-> "ok",
          dim |-> SubSeq(text, 1, ident_run(text, 1)),
          hier |-> captured(text, ident_run(text, 1) + 1,
                            group_run(text, ident_run(text, 1) + 1, "@")),
          level |-> captured(text,
                             ident_run(text, 1) + 1
                                + group_run(text, ident_run(text, 1) + 1, "@"),
                             group_run(text,
                                       ident_run(text, 1) + 1
                                          + group_run(text, ident_run(text, 1) + 1, "@"),
                                       ":"))]

\* Specification SpecDrilldown: string_to_dimension_level is called on a text.
DrilldownInit ==
    /\ attrs = <<>> /\ levels = <<>> /\ hiers = <<>> /\ dims = <<>>
    /\ call = NoCall
    /\ ret = NoRet
    /\ NoRegistry

StringToDimensionLevel ==
    /\ call = NoCall
    /\ \E text \in SeqsUpTo(IdentChars \cup OtherChars, MaxText) :
          /\ call' = [op |-> "string_to_dimension_level", astring |-> text]
          /\ ret' = string_to_dimension_level(text)
    /\ UNCHANGED <<attrs, levels, hiers, dims, finder, exts, creates, threads>>

DrilldownNext == StringToDimensionLevel

SpecDrilldown == DrilldownInit /\ [][DrilldownNext]_vars

\* a non-empty text of characters of [A-Za-z0-9_]
Identifier(t) == t # <<>> /\ \A i \in 1..Len(t) : t[i] \in IdentChars

\* the ways to cut the whole text as dimension[@hierarchy][:level]: the
\* dimension ends at i, the hierarchy (if any) at j
Cuts(text) ==
    {c \in (1..Len(text)) \X (1..Len(text)) :
        /\ c[1] <= c[2]
        /\ Identifier(SubSeq(text, 1, c[1]))
        /\ c[2] > c[1] => /\ text[c[1] + 1] = "@"
                          /\ Identifier(SubSeq(text, c[1] + 2, c[2]))
        /\ c[2] < Len(text) => /\ text[c[2] + 1] = ":"
                               /\ Identifier(SubSeq(text, c[2] + 2, Len(text)))}

\* the parts (dimension, hierarchy, level) of which the whole text is made
\* as dimension[@hierarchy][:level]; none for any other text
PartsOf(text) ==
    {[dim |-> SubSeq(text, 1, c[1]),
      hier |-> IF c[2] > c[1] THEN SubSeq(text, c[1] + 2, c[2]) ELSE NoneList,
      level |-> IF c[2] < Len(text) THEN SubSeq(text, c[2] + 2, Len(text))
                ELSE NoneList] : c \in Cuts(text)}

\* C15 as stated: string_to_dimension_level(text) succeeds exactly when the
\* whole text has the form dimension[@hierarchy][:level], returning these
\* parts, and fails with an argument error for the empty text and for every
\* other text, trailing characters after a valid prefix included.
C15_AsStated ==
    call.op = "string_to_dimension_level" =>
        IF PartsOf(call.astring) # {}
        THEN /\ ret.status = "ok"
             /\ [dim |-> ret.dim, hier |-> ret.hier, level |-> ret.level]
                   \in PartsOf(call.astring)
        ELSE ret.status = "ArgumentError"

---------------------------------------------------------------------------
\* The extension registry (src/cubes/ext.py).  A factory is named by its
\* "module:attribute" path; an _Extension object is a record of exts.

_BUILTIN_EXTENSIONS ==
    [authenticators |->
        [admin_admin |-> "cubes.server.auth:AdminAdminAuthenticator",
         pass_parameter |-> "cubes.server.auth:PassParameterAuthenticator",
         http_basic_proxy |-> "cubes.server.auth:HTTPBasicProxyAuthenticator"],
     authorizers |->
        [simple |-> "cubes.auth:SimpleAuthorizer"],
     browsers |->
        [sql |-> "cubes.sql.browser:SQLBrowser",
         slicer |-> "cubes.server.browser:SlicerBrowser"],
     formatters |->
        [text_table |-> "cubes.formatters:TextTableFormatter",
         simple_data_table |-> "cubes.formatters:SimpleDataTableFormatter",
         text_data_table |-> "cubes.formatters:TextDataTableFormatter",
         cross_data_table |-> "cubes.formatters:CrossTableFormatter",
         html_cross_data_table |-> "cubes.formatters:HTMLCrossTableFormatter",
         simple_html_table |-> "cubes.formatters:SimpleHtmlTableFormatter",
         rickshaw_multi_series |-> "cubes.formatters:RickshawMultiSeriesFormatter"],
     providers |->
        [default |-> "cubes.providers:StaticModelProvider",
         slicer |-> "cubes.server.store:SlicerProvider"],
     request_log_handlers |->
        [default |-> "cubes.server.logging:DefaultRequestLogger",
         csv |-> "cubes.server.logging:CSVRequestLogger",
         json |-> "cubes.server.logging:JSONRequestLogger",
         sql |-> "cubes.sql.logging:SQLRequestLogger"],
     stores |->
        [sql |-> "cubes.sql.store:SQLStore",
         slicer |-> "cubes.server.store:SlicerStore"]]

\* ExtensionFinder.__init__: self.builtins
builtins(type_) ==
    IF type_ \in DOMAIN _BUILTIN_EXTENSIONS THEN _BUILTIN_EXTENSIONS[type_] ELSE <<>>

\* the entry points installed under the group "cubes.<type_>", by name, with
\* the factory each one loads
iter_entry_points(type_) ==
    IF type_ = "stores" THEN [sql |-> "cubes_plugin.sql:Store", mongo |-> "cubes_plugin.mongo:MongoStore"]
    ELSE <<>>

\* the most _Extension objects ever made
MaxExts == 4

\* the registry: the finder and the objects
Registry == [finder |-> finder, exts |-> exts]

\* _Extension.__init__(type_, entry, name); loads counts the factories the
\* object was given
Extension(type_, entry, name) ==
    [type_ |-> type_, entry |-> entry,
     name |-> IF name # None THEN name ELSE entry,
     factory |-> None, loads |-> 0]

\* _Extension.set_factory(factory)
set_factory(e, factory) == [e EXCEPT !.factory = factory, !.loads = @ + 1]

\* ExtensionFinder.builtin(name), for a name of self.builtins, which skips
\* the insertion in the cache
builtin_uncached(g, name) ==
    [finder |-> g.finder,
     exts |-> Append(g.exts, set_factory(Extension(g.finder.type_, None, name),
                                         builtins(g.finder.type_)[name])),
     status |-> "ok", ext |-> Len(g.exts) + 1]

\* ExtensionFinder.builtin(name), for a name of self.builtins
builtin(g, name) ==
    [finder |-> [g.finder EXCEPT !.extensions = (name :> (Len(g.exts) + 1)) @@ @],
     exts |-> Append(g.exts, set_factory(Extension(g.finder.type_, None, name),
                                         builtins(g.finder.type_)[name])),
     status |-> "ok", ext |-> Len(g.exts) + 1]

\* ExtensionFinder._get(name); quit tells whether the debugger that
\* pdb.set_trace() opens is left by quitting it
_get(g, name, quit) ==
    IF name \in DOMAIN g.finder.extensions
    THEN [finder |-> g.finder, exts |-> g.exts,
          status |-> "ok", ext |-> g.finder.extensions[name]]
    ELSE IF name \in DOMAIN builtins(g.finder.type_)
    THEN builtin(g, name)
    ELSE [finder |-> g.finder, exts |-> g.exts,
          status |-> IF quit THEN "BdbQuit" ELSE "Exception", ext |-> 0]

\* ExtensionFinder.factory(name)
factory(g, name, quit) ==
    LET r == _get(g, name, quit)
    IN  IF r.status # "ok" THEN [r EXCEPT !.ext = 0] @@ [value |-> None]
        ELSE r @@ [value |-> r.exts[r.ext].factory]

\* _Extension.create(): the object after the call, and the outcome
Extension_create(e) ==
    IF e.factory # None THEN [e |-> e, status |-> "ok"]
    ELSE IF e.entry = None THEN [e |-> e, status |-> "AttributeError"]
    ELSE [e |-> set_factory(e, iter_entry_points(e.type_)[e.entry]), status |-> "ok"]

\* ExtensionFinder.create(name): value names the factory that made the
\* instance
create(g, name, quit) ==
    LET r == _get(g, name, quit)
    IN  IF r.status # "ok" THEN r @@ [value |-> None]
        ELSE [finder |-> r.finder,
              exts |-> [r.exts EXCEPT ![r.ext] = Extension_create(@).e],
              status |-> Extension_create(r.exts[r.ext]).status,
              ext |-> r.ext,
              value |-> Extension_create(r.exts[r.ext]).e.factory]

RECURSIVE discover_each(_, _)
\* the loop of ExtensionFinder.discover over the entry points names
discover_each(g, names) ==
    IF names = {} THEN g
    ELSE LET n == CHOOSE x \in names : TRUE
         IN  discover_each(
                [finder |-> [g.finder EXCEPT !.extensions = (n :> (Len(g.exts) + 1)) @@ @],
                 exts |-> Append(g.exts, Extension(g.finder.type_, n, None))],
                names \ {n})

\* ExtensionFinder.discover(name)
discover(g, name) ==
    LET names == {n \in DOMAIN iter_entry_points(g.finder.type_) : name = None \/ n = name}
    IN  discover_each(g, names)
           @@ [status |-> IF names = {} THEN "UnboundLocalError" ELSE "ok"]

\* Specification SpecFinder: one ExtensionFinder, and calls of factory,
\* create and discover on it.
FinderTypes == {"stores", "authorizers", "store"}
ExtensionNames == {"sql", "slicer", "simple", "nosuch"}

FinderInit ==
    /\ attrs = <<>> /\ levels = <<>> /\ hiers = <<>> /\ dims = <<>>
    /\ \E type_ \in FinderTypes : finder = [type_ |-> type_, extensions |-> <<>>]
    /\ exts = <<>>
    /\ creates = {}
    /\ threads = <<>>
    /\ call = NoCall
    /\ ret = NoRet

Factory ==
    /\ \E name \in ExtensionNames, quit \in BOOLEAN :
          LET r == factory(Registry, name, quit)
          IN  /\ finder' = r.finder
              /\ exts' = r.exts
              /\ call' = [op |-> "factory", name |-> name, before |-> Registry,
                          created |-> name \in creates]
              /\ ret' = [status |-> r.status, ext |-> r.ext, value |-> r.value]
    /\ UNCHANGED <<attrs, levels, hiers, dims, creates, threads>>

Create ==
    /\ \E name \in ExtensionNames, quit \in BOOLEAN :
          LET r == create(Registry, name, quit)
          IN  /\ finder' = r.finder
              /\ exts' = r.exts
              /\ creates' = creates \cup {name}
              /\ call' = [op |-> "create", name |-> name, before |-> Registry,
                          created |-> name \in creates]
              /\ ret' = [status |-> r.status, ext |-> r.ext, value |-> r.value]
    /\ UNCHANGED <<attrs, levels, hiers, dims, threads>>

Discover ==
    /\ Len(exts) + Cardinality(DOMAIN iter_entry_points(finder.type_)) <= MaxExts
    /\ call.op # "discover"
    /\ \E name \in {None, "sql"} :
          LET r == discover(Registry, name)
          IN  /\ finder' = r.finder
              /\ exts' = r.exts
              /\ call' = [op |-> "discover", name |-> name, before |-> Registry,
                          created |-> FALSE]
              /\ ret' = [status |-> r.status, ext |-> Len(r.exts), value |-> None]
    /\ UNCHANGED <<attrs, levels, hiers, dims, creates, threads>>

FinderNext == Factory \/ Create \/ Discover

SpecFinder == FinderInit /\ [][FinderNext]_vars

\* the latest call was a lookup: factory(name) or create(name)
Lookup == call.op \in {"factory", "create"}

\* C16 as stated: a lookup returns the extension the cache has for the name;
\* else loads the builtin of the registry's type and caches it; else fails
\* with an InternalError, leaving the cache as it was.
C16_AsStated ==
    Lookup =>
        IF call.name \in DOMAIN call.before.finder.extensions
        THEN /\ ret.ext = call.before.finder.extensions[call.name]
             /\ finder = call.before.finder
        ELSE IF call.name \in DOMAIN builtins(finder.type_)
        THEN /\ ret.status = "ok"
             /\ ret.ext = Len(call.before.exts) + 1
             /\ exts[ret.ext].factory = builtins(finder.type_)[call.name]
             /\ finder.extensions = (call.name :> ret.ext) @@ call.before.finder.extensions
        ELSE /\ ret.status = "InternalError"
             /\ finder = call.before.finder

\* only factory and create were called: no object comes from discover
OnlyLookups == \A i \in 1..Len(exts) : exts[i].entry = None

\* C17 as stated: over calls of factory(name) and create(name) on one
\* finder, the factory of an extension is not loaded before the first create
\* for the name, is loaded exactly once, and a later lookup returns the
\* cached extension without loading again.
C17_AsStated ==
    (OnlyLookups /\ Lookup /\ ret.status = "ok") =>
        /\ exts[ret.ext].loads = (IF call.op = "factory" /\ ~call.created THEN 0 ELSE 1)
        /\ call.name \in DOMAIN call.before.finder.extensions =>
              /\ ret.ext = call.before.finder.extensions[call.name]
              /\ exts[ret.ext].loads <= call.before.exts[ret.ext].loads + 1

\* C17, amended: over calls of factory(name) and create(name) on one finder,
\* the factory of a builtin extension is loaded by the first lookup of the
\* name, be it factory or create, exactly once; every later lookup returns
\* the same cached extension and loads nothing.
C17_LoadedAtLookup ==
    OnlyLookups =>
        /\ \A n \in DOMAIN finder.extensions : exts[finder.extensions[n]].loads = 1
        /\ (Lookup /\ ret.status = "ok") =>
              /\ call.name \in DOMAIN finder.extensions
              /\ finder.extensions[call.name] = ret.ext
              /\ exts[ret.ext].factory = builtins(finder.type_)[call.name]
              /\ ret.value = exts[ret.ext].factory
              /\ IF call.name \in DOMAIN call.before.finder.extensions
                 THEN /\ ret.ext = call.before.finder.extensions[call.name]
                      /\ exts = call.before.exts
                      /\ finder = call.before.finder
                 ELSE /\ ret.ext = Len(call.before.exts) + 1
                      /\ SubSeq(exts, 1, Len(call.before.exts)) = call.before.exts
                      /\ Len(exts) = Len(call.before.exts) + 1

\* factory(name) came first and loaded the factory; a create of the name
\* follows and finds the extension in the cache
C17_Witness ==
    /\ OnlyLookups
    /\ call.op = "create"
    /\ ret.status = "ok"
    /\ ~call.created
    /\ call.name \in DOMAIN call.before.finder.extensions
    /\ exts = call.before.exts

---------------------------------------------------------------------------
\* The SQL expression compiler (src/cubes/sql/expressions.py).  A mapping is
\* a function from names; an expression is a tree of variable, literal,
\* unary, binary and function nodes whose operands are leaves; a compiled
\* column is a record naming what it was built from.

SQL_FUNCTIONS ==
    {"lower", "upper", "left", "right", "substr", "lpad", "rpad", "replace",
     "concat", "repeat", "position", "round", "trunc", "floor", "ceil", "mod",
     "remainder", "sign", "min", "max", "pow", "exp", "log", "log10", "sqrt",
     "cos", "sin", "tan", "extract", "coalesce", "nullif", "case"}

SQL_AGGREGATE_FUNCTIONS == {"sum", "min", "max", "avg", "stddev", "variance", "count"}

SQL_ALL_FUNCTIONS == SQL_FUNCTIONS \cup SQL_AGGREGATE_FUNCTIONS

SQL_VARIABLES == {"current_date", "current_time", "local_date", "local_time"}

BinaryOperators ==
    {"*", "/", "%", "+", "-", "&", "|", "<", "<=", ">", ">=", "=", "!=", "and", "or"}

UnaryOperators == {"-", "+", "~", "not"}

\* an attribute without expression
NoExpression == [node |-> "none"]

\* SQLExpressionContext.__init__, were it to keep the dictionary it is given
\* instead of a copy
SQLExpressionContext_aliased(columns, parameters, label) ==
    [columns |-> columns, parameters |-> parameters, label |-> label,
     argument |-> columns, copied |-> FALSE]

\* SQLExpressionContext.__init__(columns, parameters, label): _columns is
\* dict(columns), a copy, or a new dictionary when columns is empty;
\* argument is the dictionary that was passed, as it is now
SQLExpressionContext(columns, parameters, label) ==
    [columns |-> columns, parameters |-> parameters, label |-> label,
     argument |-> columns, copied |-> TRUE]

\* SQLExpressionContext.resolve(variable)
resolve(context, variable) ==
    IF variable \in DOMAIN context.columns
    THEN [status |-> "ok", value |-> context.columns[variable]]
    ELSE IF variable \in DOMAIN context.parameters
    THEN [status |-> "ok", value |-> context.parameters[variable]]
    ELSE IF variable \in SQL_VARIABLES
    THEN [status |-> "ok", value |-> [func |-> variable, args |-> <<>>]]
    ELSE [status |-> "ExpressionError", value |-> [unknown |-> variable]]

\* SQLExpressionContext.function(name)
function(context, name) ==
    IF name \notin SQL_ALL_FUNCTIONS
    THEN [status |-> "ExpressionError", value |-> [unknown |-> name]]
    ELSE [status |-> "ok", value |-> name]

\* SQLExpressionContext.add_column(name, column), losing the column
add_column_lost(context, name, column) == context

\* SQLExpressionContext.add_column(name, column)
add_column(context, name, column) ==
    [context EXCEPT !.columns = (name :> column) @@ @,
                    !.argument = IF context.copied THEN @ ELSE (name :> column) @@ @]

\* SQLExpressionCompiler.compile_literal and compile_variable: a leaf
compile_leaf(context, leaf) ==
    IF leaf.node = "variable" THEN resolve(context, leaf.name)
    ELSE [status |-> "ok", value |-> [bindparam |-> "literal", value |-> leaf.value]]

\* the operands of a node compiled from left to right: the first failure, or
\* the compiled operands
compile_operands(context, args) ==
    LET rs  == [i \in DOMAIN args |-> compile_leaf(context, args[i])]
        bad == {i \in DOMAIN args : rs[i].status # "ok"}
    IN  IF bad # {} THEN rs[CHOOSE i \in bad : \A j \in bad : i <= j]
        ELSE [status |-> "ok", value |-> [i \in DOMAIN args |-> rs[i].value]]

\* SQLExpressionCompiler.compile_binary(context, operator, op1, op2)
compile_binary(context, operator, op1, op2) ==
    IF operator \in BinaryOperators
    THEN [status |-> "ok", value |-> [operator |-> operator, operands |-> <<op1, op2>>]]
    ELSE [status |-> "SyntaxError", value |-> [unknown |-> operator]]

\* SQLExpressionCompiler.compile_unary(context, operator, operand)
compile_unary(context, operator, operand) ==
    IF operator \in UnaryOperators
    THEN [status |-> "ok", value |-> [operator |-> operator, operands |-> <<operand>>]]
    ELSE [status |-> "SyntaxError", value |-> [unknown |-> operator]]

\* SQLExpressionCompiler.compile_function(context, func, args)
compile_function(context, func, args) ==
    IF function(context, func).status # "ok" THEN function(context, func)
    ELSE [status |-> "ok", value |-> [func |-> func, args |-> args]]

\* Compiler.compile(expression, context): the operands, then the node
compile(expression, context) ==
    IF expression.node \in {"variable", "literal"} THEN compile_leaf(context, expression)
    ELSE IF compile_operands(context, expression.args).status # "ok"
    THEN compile_operands(context, expression.args)
    ELSE IF expression.node = "binary"
    THEN compile_binary(context, expression.operator,
                        compile_operands(context, expression.args).value[1],
                        compile_operands(context, expression.args).value[2])
    ELSE IF expression.node = "unary"
    THEN compile_unary(context, expression.operator,
                       compile_operands(context, expression.args).value[1])
    ELSE compile_function(context, expression.name,
                          compile_operands(context, expression.args).value)

\* str.lower() of the function names at hand
lower(name) == IF name = "SUM" THEN "sum" ELSE name

\* get_aggregate_function(function_name)(attr, context, coalesce): the
\* aggregate of the attribute's measure
aggregate_column(function_name, attr, context, coalesce) ==
    IF resolve(context, attr.measure).status # "ok" THEN resolve(context, attr.measure)
    ELSE [status |-> "ok",
          value |-> [func |-> function_name,
                     args |-> <<resolve(context, attr.measure).value>>,
                     coalesce |-> coalesce]]

\* the body of the loop of compile_attributes for attr
compile_attribute(context, attr, coalesce) ==
    IF attr.function # None
    THEN aggregate_column(lower(attr.function), attr, context, coalesce)
    ELSE compile(attr.expression, context)

RECURSIVE compile_each(_, _, _, _)
\* the loop of compile_attributes from the i-th dependant on
compile_each(context, dependants, i, coalesce) ==
    IF i > Len(dependants)
    THEN [status |-> "ok", columns |-> context.columns, bases |-> context.argument]
    ELSE IF compile_attribute(context, dependants[i], coalesce).status # "ok"
    THEN [status |-> compile_attribute(context, dependants[i], coalesce).status,
          columns |-> <<>>, bases |-> context.argument]
    ELSE compile_each(add_column(context, dependants[i].ref,
                                 compile_attribute(context, dependants[i], coalesce).value),
                      dependants, i + 1, coalesce)

\* compile_attributes(bases, dependants, parameters, coalesce, label): the
\* outcome, the mapping returned, and bases after the call
compile_attributes(bases, dependants, parameters, coalesce, label) ==
    compile_each(SQLExpressionContext(bases, parameters, label), dependants, 1, coalesce)

\* Specification SpecCompile: compile_attributes is called on a list of
\* dependants drawn from a pool.
MaxDependants == 2

Variable(name) == [node |-> "variable", name |-> name]
Literal(value) == [node |-> "literal", value |-> value]

Dependant(ref, expression) ==
    [ref |-> ref, expression |-> expression, function |-> None, measure |-> None]

Aggregate(ref, function_name, measure) ==
    [ref |-> ref, expression |-> NoExpression, function |-> function_name,
     measure |-> measure]

DependantPool ==
    {Dependant("x", [node |-> "binary", operator |-> "+",
                     args |-> <<Variable("y"), Literal(1)>>]),
     Dependant("y", Variable("a")),
     Dependant("t", [node |-> "function", name |-> "extract",
                     args |-> <<Variable("current_date")>>]),
     Dependant("n", [node |-> "unary", operator |-> "not", args |-> <<Variable("p")>>]),
     Dependant("e", [node |-> "function", name |-> "evil", args |-> <<Variable("a")>>]),
     Dependant("o", [node |-> "binary", operator |-> "^",
                     args |-> <<Variable("a"), Literal(2)>>]),
     Aggregate("total", "SUM", "x"),
     Aggregate("count", "count", "a")}

BasesArgs == {<<>>, [a |-> [column |-> "a"]]}
ParametersArgs == {<<>>, [p |-> [parameter |-> "p"]]}

CompileInit ==
    /\ attrs = <<>> /\ levels = <<>> /\ hiers = <<>> /\ dims = <<>>
    /\ call = NoCall
    /\ ret = NoRet
    /\ NoRegistry

CompileAttributes ==
    /\ call = NoCall
    /\ \E bases \in BasesArgs, parameters \in ParametersArgs,
          dependants \in SeqsUpTo(DependantPool, MaxDependants) :
          /\ call' = [op |-> "compile_attributes", bases |-> bases,
                      dependants |-> dependants, parameters |-> parameters]
          /\ ret' = compile_attributes(bases, dependants, parameters, FALSE, "sales")
    /\ UNCHANGED <<attrs, levels, hiers, dims, finder, exts, creates, threads>>

CompileNext == CompileAttributes

SpecCompile == CompileInit /\ [][CompileNext]_vars

\* the names an attribute refers to
References(attr) ==
    IF attr.function # None THEN {attr.measure}
    ELSE IF attr.expression.node = "variable" THEN {attr.expression.name}
    ELSE IF attr.expression.node = "literal" THEN {}
    ELSE {attr.expression.args[i].name :
             i \in {k \in DOMAIN attr.expression.args :
                       attr.expression.args[k].node = "variable"}}

\* the names the i-th of the dependants ds refers to that are neither in
\* bases, nor parameters, nor SQL variables, nor refs of earlier dependants
Unresolved(bases, parameters, ds, i) ==
    {n \in References(ds[i]) :
        /\ n \notin DOMAIN bases
        /\ n \notin DOMAIN parameters
        /\ n \notin SQL_VARIABLES
        /\ \A j \in 1..(i - 1) : ds[j].ref # n}

\* the attribute uses known operators and functions only
Sound(attr) ==
    IF attr.function # None THEN TRUE
    ELSE IF attr.expression.node = "binary" THEN attr.expression.operator \in BinaryOperators
    ELSE IF attr.expression.node = "unary" THEN attr.expression.operator \in UnaryOperators
    ELSE IF attr.expression.node = "function" THEN attr.expression.name \in SQL_ALL_FUNCTIONS
    ELSE TRUE

\* every dependant of ds is sound and refers to resolved names only
InOrder(bases, parameters, ds) ==
    \A i \in 1..Len(ds) : Sound(ds[i]) /\ Unresolved(bases, parameters, ds, i) = {}

\* ds with the entries at i and j exchanged
Exchanged(ds, i, j) == [ds EXCEPT ![i] = ds[j], ![j] = ds[i]]

\* C18: compile_attributes takes the dependants in list order and stores each
\* result under the attribute's ref.  When the first dependant at fault
\* refers to a name that is not in bases, not a parameter, not an SQL
\* variable and not the ref of an earlier dependant, the call fails with an
\* expression error; when that name is the ref of a later dependant and the
\* list with the two exchanged is in order, compiling the exchanged list
\* succeeds and its result has both refs.  A list in order compiles, and the
\* result has the ref of every dependant.
C18_InListOrder ==
    call.op = "compile_attributes" =>
        LET ds == call.dependants
            b  == call.bases
            p  == call.parameters
        IN  /\ \A i \in 1..Len(ds) :
                  (/\ Unresolved(b, p, ds, i) # {}
                   /\ \A k \in 1..(i - 1) : Sound(ds[k]) /\ Unresolved(b, p, ds, k) = {})
                  => /\ ret.status = "ExpressionError"
                     /\ \A j \in (i + 1)..Len(ds) :
                           (ds[j].ref \in Unresolved(b, p, ds, i)
                              /\ InOrder(b, p, Exchanged(ds, i, j)))
                           => LET r == compile_attributes(b, Exchanged(ds, i, j), p,
                                                          FALSE, "sales")
                              IN  /\ r.status = "ok"
                                  /\ {ds[i].ref, ds[j].ref} \subseteq DOMAIN r.columns
            /\ InOrder(b, p, ds) =>
                  /\ ret.status = "ok"
                  /\ \A i \in 1..Len(ds) : ds[i].ref \in DOMAIN ret.columns
                  /\ \A i \in 1..Len(ds) :
                        (ds[i].function = None /\ ds[i].expression.node = "variable"
                           /\ \A k \in (i + 1)..Len(ds) : ds[k].ref # ds[i].ref)
                        => ret.columns[ds[i].ref]
                              = resolve(SQLExpressionContext(ret.columns, p, "sales"),
                                        ds[i].expression.name).value

\* a list in which the second dependant refers to the first compiled: the
\* reordered form of a forward reference
C18_Witness ==
    /\ call.op = "compile_attributes"
    /\ ret.status = "ok"
    /\ Len(call.dependants) = 2
    /\ call.dependants[1].ref \in References(call.dependants[2])
    /\ call.dependants[1].ref \notin DOMAIN call.bases
    /\ {call.dependants[1].ref, call.dependants[2].ref} \subseteq DOMAIN ret.columns

---------------------------------------------------------------------------
\* The logical to physical mappers (src/cubes/sql/mapper.py).  A physical
\* name is the sequence of the non-empty parts it is concatenated from.

NAMING_DEFAULTS ==
    [fact_prefix |-> None, fact_suffix |-> None,
     dimension_prefix |-> None, dimension_suffix |-> None,
     dimension_key_prefix |-> None, dimension_key_suffix |-> None,
     denormalized_prefix |-> None, denormalized_suffix |-> None,
     aggregated_prefix |-> None, aggregated_suffix |-> None,
     fact_key |-> "id", dimension_key |-> "id",
     explicit_dimension_primary |-> "False",
     schema |-> None, fact_schema |-> None, dimension_schema |-> None,
     aggregate_schema |-> None]

\* _naming_default(naming, key)
_naming_default(naming, key) == Get(naming, key, NAMING_DEFAULTS[key])

\* "{}{}{}".format(prefix or "", name, suffix or "")
Affixed(prefix, name, suffix) ==
    (IF Truthy(prefix) THEN <<prefix>> ELSE <<>>) \o <<name>>
       \o (IF Truthy(suffix) THEN <<suffix>> ELSE <<>>)

\* Mapper.__init__(cube, naming, locale)
Mapper(cube, naming, locale) ==
    [locale |-> locale,
     mappings |-> cube.mappings,
     dimension_prefix |-> _naming_default(naming, "dimension_prefix"),
     dimension_suffix |-> _naming_default(naming, "dimension_suffix"),
     fact_prefix |-> _naming_default(naming, "fact_prefix"),
     fact_suffix |-> _naming_default(naming, "fact_suffix"),
     schema |-> _naming_default(naming, "schema"),
     fact_schema |-> _naming_default(naming, "fact_schema"),
     dimension_schema |-> _naming_default(naming, "dimension_schema"),
     fact_name |-> IF Truthy(cube.fact) THEN <<cube.fact>>
                   ELSE Affixed(_naming_default(naming, "fact_prefix"), cube.name,
                                _naming_default(naming, "fact_suffix"))]

\* Mapper.dimension_table_name(name)
dimension_table_name(self, name) ==
    Affixed(self.dimension_prefix, name, self.dimension_suffix)

\* Mapper.fact_table_name(name)
fact_table_name(self, name) == Affixed(self.fact_prefix, name, self.fact_suffix)

\* Attribute.is_localizable()
is_localizable(a) == a.locales # <<>>

\* the locale both mappers settle on for a localizable attribute
attribute_locale(self, a) ==
    IF self.locale \in Range(a.locales) THEN self.locale ELSE a.locales[1]

\* Attribute.localized_ref(locale)
localized_ref(a, locale) == IF Truthy(locale) THEN a.ref \o <<locale>> ELSE a.ref

\* ColumnReference(column, table, schema)
ColumnReference(column, table, schema) ==
    [schema |-> schema, table |-> table, column |-> column]

\* ColumnReference.from_dict(physical)
ColumnReference_from_dict(physical) ==
    ColumnReference(physical.column, physical.table, Get(physical, "schema", None))

\* Mapper.attribute_table(attribute)
attribute_table(h, self, a) ==
    IF a.dimension # 0
    THEN [schema |-> IF Truthy(self.dimension_schema) THEN self.dimension_schema
                     ELSE self.schema,
          table |-> IF is_flat(h, a.dimension) /\ ~has_details(h, a.dimension)
                    THEN self.fact_name
                    ELSE dimension_table_name(self, h.dims[a.dimension].name)]
    ELSE [schema |-> self.schema, table |-> self.fact_name]

\* Mapper.__getitem__(attribute)
Mapper_getitem(h, self, a) ==
    [status |-> "ok",
     value |-> ColumnReference(IF is_localizable(a)
                               THEN <<a.name, "_", attribute_locale(self, a)>>
                               ELSE <<a.name>>,
                               attribute_table(h, self, a).table,
                               attribute_table(h, self, a).schema)]

\* DenormalizedMapper.__getitem__(attribute)
DenormalizedMapper_getitem(h, self, a) ==
    IF a.expression # None THEN [status |-> "ModelError", value |-> <<>>]
    ELSE Mapper_getitem(h, self, a)

\* the logical reference StarSchemaMapper looks up, leaving the locale out
logical_plain(self, a) == localized_ref(a, None)

\* the logical reference StarSchemaMapper looks up
logical(self, a) ==
    localized_ref(a, IF is_localizable(a) THEN attribute_locale(self, a) ELSE None)

\* StarSchemaMapper.__getitem__(attribute)
StarSchemaMapper_getitem(h, self, a) ==
    IF a.expression # None THEN [status |-> "ModelError", value |-> <<>>]
    ELSE IF logical(self, a) \in DOMAIN self.mappings
    THEN [status |-> "ok",
          value |-> ColumnReference_from_dict(self.mappings[logical(self, a)])]
    ELSE Mapper_getitem(h, self, a)

\* Specification SpecMapper: the cube sales with the dimensions flag (one
\* level of one attribute), customer (one level of two attributes) and date
\* (two levels) and the measure amount; mappers are made for it and asked
\* for an attribute.
MapperAttrs == <<"flag", "id", "name", "year", "month", "amount">>

MapperLevels ==
    MakeLevels([EmptyHeap EXCEPT !.attrs = [i \in 1..Len(MapperAttrs) |->
                                               Attribute(MapperAttrs[i])]],
               << [name |-> "flag", attributes |-> <<1>>],
                  [name |-> "customer", attributes |-> <<2, 3>>],
                  [name |-> "year", attributes |-> <<4>>],
                  [name |-> "month", attributes |-> <<5>>] >>)

MapperFlag == DimensionInit(MapperLevels, "flag", <<1>>, <<>>, None, 0, None, <<>>).h

MapperCustomer == DimensionInit(MapperFlag, "customer", <<2>>, <<>>, None, 0, None, <<>>).h

MapperHeap == DimensionInit(MapperCustomer, "date", <<3, 4>>, <<>>, None, 0, None, <<>>).h

\* the explicit mappings of the cube
MappingsArgs ==
    {<<>>,
     (<<"customer", "name">> :> [table |-> <<"dim_customer">>, column |-> <<"name">>])
        @@ (<<"customer", "name", "sk">> :>
               [schema |-> "l10n", table |-> <<"dim_customer">>, column |-> <<"name_sk">>])}

CubeArgs == [name : {"sales"}, fact : {None, "facts"}, mappings : MappingsArgs]

NamingArgs ==
    {a @@ b @@ c @@ d : a \in Opt("schema", {"public"}),
                         b \in Opt("dimension_schema", {"dims"}),
                         c \in Opt("dimension_prefix", {"dim_"}),
                         d \in Opt("fact_suffix", {"_facts"})}

LocaleArgs == {None, "sk", "de"}

MappingInit ==
    /\ \E locales \in {<<>>, <<"en", "sk">>}, expression \in {None, "amount * 2"} :
          attrs = [i \in 1..Len(MapperHeap.attrs) |->
                      MapperHeap.attrs[i]
                         @@ [locales |-> IF i \in {3, 5} THEN locales ELSE <<>>,
                             expression |-> IF i \in {2, 6} THEN expression ELSE None]]
    /\ levels = MapperHeap.levels
    /\ hiers = MapperHeap.hiers
    /\ dims = MapperHeap.dims
    /\ call = NoCall
    /\ ret = NoRet
    /\ NoRegistry

MapperGetitem ==
    /\ call = NoCall
    /\ \E cube \in CubeArgs, naming \in NamingArgs, locale \in LocaleArgs,
          a \in 1..Len(attrs) :
          /\ call' = [op |-> "Mapper", cube |-> cube, naming |-> naming,
                      locale |-> locale, attribute |-> a]
          /\ ret' = Mapper_getitem(Heap, Mapper(cube, naming, locale), attrs[a])
    /\ UNCHANGED <<attrs, levels, hiers, dims, finder, exts, creates, threads>>

DenormalizedMapperGetitem ==
    /\ call = NoCall
    /\ \E cube \in CubeArgs, naming \in NamingArgs, locale \in LocaleArgs,
          a \in 1..Len(attrs) :
          /\ call' = [op |-> "DenormalizedMapper", cube |-> cube, naming |-> naming,
                      locale |-> locale, attribute |-> a]
          /\ ret' = DenormalizedMapper_getitem(Heap, Mapper(cube, naming, locale), attrs[a])
    /\ UNCHANGED <<attrs, levels, hiers, dims, finder, exts, creates, threads>>

StarSchemaMapperGetitem ==
    /\ call = NoCall
    /\ \E cube \in CubeArgs, naming \in NamingArgs, locale \in LocaleArgs,
          a \in 1..Len(attrs) :
          /\ call' = [op |-> "StarSchemaMapper", cube |-> cube, naming |-> naming,
                      locale |-> locale, attribute |-> a]
          /\ ret' = StarSchemaMapper_getitem(Heap, Mapper(cube, naming, locale), attrs[a])
    /\ UNCHANGED <<attrs, levels, hiers, dims, finder, exts, creates, threads>>

MapperNext == MapperGetitem \/ DenormalizedMapperGetitem \/ StarSchemaMapperGetitem

SpecMapper == MappingInit /\ [][MapperNext]_vars

\* the fact table of the call's cube under the call's naming
FactTable ==
    IF call.cube.fact # None THEN <<call.cube.fact>>
    ELSE <<call.cube.name>> \o (IF "fact_suffix" \in DOMAIN call.naming
                                THEN <<call.naming["fact_suffix"]>> ELSE <<>>)

\* the dimension table of dimension d under the call's naming
DimensionTable(d) ==
    (IF "dimension_prefix" \in DOMAIN call.naming
     THEN <<call.naming["dimension_prefix"]>> ELSE <<>>) \o <<dims[d].name>>

\* the schema configured under key, None when it is not
Configured(key) == IF key \in DOMAIN call.naming THEN call.naming[key] ELSE None

\* C19 as stated: the implicit reference of an attribute with no dimension,
\* or of a flat dimension without a multi-attribute level, is (general schema,
\* fact table); of any other attribute it is (dimension_schema if configured,
\* else the general schema, dimension_table_name(dimension.name)).
C19_AsStated ==
    call.op = "Mapper" =>
        LET d == attrs[call.attribute].dimension
        IN  IF d = 0 \/ (Len(dims[d].levels) = 1
                           /\ \A i \in 1..Len(dims[d].levels) :
                                 Len(levels[dims[d].levels[i]].attributes) = 1)
            THEN /\ ret.value.schema = Configured("schema")
                 /\ ret.value.table = FactTable
            ELSE /\ ret.value.schema = (IF Configured("dimension_schema") # None
                                        THEN Configured("dimension_schema")
                                        ELSE Configured("schema"))
                 /\ ret.value.table = DimensionTable(d)

\* the locale-qualified logical reference of the call's attribute
LogicalReference ==
    LET a == attrs[call.attribute]
    IN  IF a.locales = <<>> THEN a.ref
        ELSE IF \E i \in 1..Len(a.locales) : a.locales[i] = call.locale
        THEN a.ref \o <<call.locale>>
        ELSE a.ref \o <<a.locales[1]>>

\* C20: StarSchemaMapper[attribute] fails with a model error when the
\* attribute has an expression; otherwise it returns the cube's explicit
\* mapping of the attribute's locale-qualified logical reference when
\* cube.mappings has one, and what the base Mapper returns when it has not.
C20_StarSchema ==
    call.op = "StarSchemaMapper" =>
        IF attrs[call.attribute].expression # None
        THEN ret.status = "ModelError"
        ELSE IF LogicalReference \in DOMAIN call.cube.mappings
        THEN /\ ret.status = "ok"
             /\ ret.value.table = call.cube.mappings[LogicalReference].table
             /\ ret.value.column = call.cube.mappings[LogicalReference].column
             /\ ret.value.schema = (IF "schema" \in DOMAIN call.cube.mappings[LogicalReference]
                                    THEN call.cube.mappings[LogicalReference].schema
                                    ELSE None)
        ELSE ret = Mapper_getitem(Heap, Mapper(call.cube, call.naming, call.locale),
                                  attrs[call.attribute])

\* the explicit mapping of a localized reference was returned
C20_Witness ==
    /\ call.op = "StarSchemaMapper"
    /\ ret.status = "ok"
    /\ attrs[call.attribute].locales # <<>>
    /\ LogicalReference \in DOMAIN call.cube.mappings
    /\ ret.value.schema = "l10n"

---------------------------------------------------------------------------
\* The request preparation (src/cubes/server/decorators.py).  The value of a
\* query parameter is a text, a sequence of characters.

\* the longest value of the order parameter
MaxOrderText == 3

OrderChars == {"a", ",", ":"}

RECURSIVE split(_, _)
\* str.split(sep) for a one-character separator
split(text, sep) ==
    IF \A i \in 1..Len(text) : text[i] # sep THEN <<text>>
    ELSE LET i == CHOOSE k \in 1..Len(text) :
                     text[k] = sep /\ \A j \in 1..(k - 1) : text[j] # sep
         IN  <<SubSeq(text, 1, i - 1)>> \o split(SubSeq(text, i + 1, Len(text)), sep)

\* the pair requires_browser appends for one comma segment
order_pair(order) ==
    IF Len(split(order, ":")) = 1 THEN <<order, NoneList>>
    ELSE <<split(order, ":")[1], split(order, ":")[2]>>

RECURSIVE collect_orderings(_)
\* g.order after the loops of requires_browser over request.args.getlist("order")
collect_orderings(values) ==
    IF values = <<>> THEN <<>>
    ELSE [i \in 1..Len(split(Head(values), ",")) |-> order_pair(split(Head(values), ",")[i])]
            \o collect_orderings(Tail(values))

\* Specification SpecOrder: the order list is built from no, one or two
\* values of the order parameter.
OrderTexts == SeqsUpTo(OrderChars, MaxOrderText)

OrderArgs ==
    {<<>>} \cup {<<t>> : t \in OrderTexts} \cup {<<t, u>> : t \in OrderTexts, u \in OrderTexts}

OrderInit ==
    /\ attrs = <<>> /\ levels = <<>> /\ hiers = <<>> /\ dims = <<>>
    /\ call = NoCall
    /\ ret = NoRet
    /\ NoRegistry

CollectOrderings ==
    /\ call = NoCall
    /\ \E values \in OrderArgs :
          /\ call' = [op |-> "order", values |-> values]
          /\ ret' = [status |-> "ok", order |-> collect_orderings(values)]
    /\ UNCHANGED <<attrs, levels, hiers, dims, finder, exts, creates, threads>>

OrderNext == CollectOrderings

SpecOrder == OrderInit /\ [][OrderNext]_vars

\* the positions of the character c in text
Positions(text, c) == {i \in 1..Len(text) : text[i] = c}

\* the k-th smallest member of a set of numbers; 0 for k = 0, and one past
\* the text for a k beyond the set
Nth(S, k, beyond) ==
    IF k = 0 THEN 0
    ELSE IF k > Cardinality(S) THEN beyond
    ELSE CHOOSE x \in S : Cardinality({y \in S : y <= x}) = k

\* the comma segments of the values, in request order
RECURSIVE Segments(_)
Segments(values) ==
    IF values = <<>> THEN <<>>
    ELSE LET v == Head(values)
             commas == Positions(v, ",")
         IN  [k \in 1..(Cardinality(commas) + 1) |->
                 SubSeq(v, Nth(commas, k - 1, Len(v) + 1) + 1,
                           Nth(commas, k, Len(v) + 1) - 1)]
                \o Segments(Tail(values))

\* C21 as stated: the order list has one pair per comma segment of the
\* values, in order; the field is the text before the first colon and the
\* direction the text after the first colon, absent without a colon.
C21_AsStated ==
    call.op = "order" =>
        /\ Len(ret.order) = Len(Segments(call.values))
        /\ \A k \in 1..Len(ret.order) :
              LET seg == Segments(call.values)[k]
                  colons == Positions(seg, ":")
              IN  IF colons = {} THEN ret.order[k] = <<seg, NoneList>>
                  ELSE ret.order[k]
                          = <<SubSeq(seg, 1, Nth(colons, 1, 0) - 1),
                              SubSeq(seg, Nth(colons, 1, 0) + 1, Len(seg))>>

---------------------------------------------------------------------------
\* requires_cube and requires_browser.  A request is its query arguments
\* (each parameter with the list of its values) and the cube_name of the
\* route; r is the progress of a wrapper: its status, the request context g,
\* and the trace of what it called.

\* request.args.get(key)
args_get(request, key) ==
    IF key \in DOMAIN request.args THEN request.args[key][1] ELSE None

\* request.args.getlist(key)
args_getlist(request, key) ==
    IF key \in DOMAIN request.args THEN request.args[key] ELSE <<>>

\* the wrapper goes on with g.key set to value, having called step
Proceed(r, step, key, value) ==
    [status |-> "ok", g |-> (key :> value) @@ r.g, trace |-> Append(r.trace, step),
     error |-> None]

\* the wrapper ends with the exception status raised in step
Raise(r, step, status, error) ==
    [status |-> status, g |-> r.g, trace |-> Append(r.trace, step), error |-> error]

\* workspace.cube(cube_name, identity, locale): the cubes of the workspace
\* and the identities that may see them
workspace_cube(ws, cube_name, identity) ==
    IF cube_name \notin DOMAIN ws.cubes THEN "NoSuchCubeError"
    ELSE IF identity \notin ws.cubes[cube_name] THEN "NotAuthorized"
    ELSE "ok"

\* authorized_cube(cube_name, locale)
authorized_cube(ws, r, cube_name) ==
    IF workspace_cube(ws, cube_name, r.g.auth_identity) = "NotAuthorized"
    THEN Raise(r, "authorized_cube", "NotAuthorizedError", cube_name)
    ELSE IF workspace_cube(ws, cube_name, r.g.auth_identity) = "NoSuchCubeError"
    THEN Raise(r, "authorized_cube", "NoSuchCubeError", cube_name)
    ELSE Proceed(r, "authorized_cube", "cube", cube_name)

\* the first lines of both wrappers: g.locale
set_locale(request, r) ==
    [r EXCEPT !.g = [locale |-> IF "lang" \in DOMAIN request.args
                                THEN args_get(request, "lang") ELSE None] @@ @]

\* requires_cube(f)(request)
requires_cube(ws, request, r) ==
    IF authorized_cube(ws, set_locale(request, r), request.view_args.cube_name).status
          = "NoSuchCubeError"
    THEN Raise(set_locale(request, r), "authorized_cube", "NotFoundError",
               request.view_args.cube_name)
    ELSE IF authorized_cube(ws, set_locale(request, r),
                            request.view_args.cube_name).status # "ok"
    THEN authorized_cube(ws, set_locale(request, r), request.view_args.cube_name)
    ELSE Proceed(authorized_cube(ws, set_locale(request, r),
                                 request.view_args.cube_name),
                 "f", "handled", "yes")

\* requires_browser: g.cube
browser_cube(ws, request, r) ==
    IF Truthy(request.view_args.cube_name)
    THEN authorized_cube(ws, set_locale(request, r), request.view_args.cube_name)
    ELSE [set_locale(request, r) EXCEPT !.g = [cube |-> None] @@ @]

\* requires_browser: g.browser = workspace.browser(g.cube)
browser_browser(ws, r) ==
    IF r.status # "ok" THEN r
    ELSE IF ~ws.browsable THEN Raise(r, "browser", "ConfigurationError", r.g.cube)
    ELSE Proceed(r, "browser", "browser", r.g.cube)

\* prepare_cell(restrict=True): the cuts are parsed, the cell is restricted
\* by the authorizer, if there is one, and stored in g.cell
prepare_cell(ws, request, r) ==
    IF r.status # "ok" THEN r
    ELSE IF \E i \in 1..Len(args_getlist(request, "cut")) :
               args_getlist(request, "cut")[i] = "malformed"
    THEN Raise(r, "prepare_cell", "ArgumentError", "cut")
    ELSE IF ws.authorizer = "denying"
    THEN Raise(r, "prepare_cell", "NotAuthorized", r.g.auth_identity)
    ELSE Proceed(r, "prepare_cell", "cell",
                 [cuts |-> args_getlist(request, "cut"),
                  restricted |-> ws.authorizer # None])

\* int(text) of the texts at hand: the number, or -1 for ValueError
int(text) == IF text = "1" THEN 1 ELSE IF text = "20" THEN 20 ELSE -1

\* requires_browser: g.<target> from the parameter key, going on without the
\* number when the text is not one
parse_number_lenient(request, r, key, target) ==
    IF r.status # "ok" THEN r
    ELSE IF key \notin DOMAIN request.args THEN Proceed(r, key, target, None)
    ELSE IF int(args_get(request, key)) = -1 THEN Proceed(r, key, target, None)
    ELSE Proceed(r, key, target, args_get(request, key))

\* requires_browser: g.<target> from the parameter key (page or pagesize)
parse_number(request, r, key, target) ==
    IF r.status # "ok" THEN r
    ELSE IF key \notin DOMAIN request.args THEN Proceed(r, key, target, None)
    ELSE IF int(args_get(request, key)) = -1 THEN Raise(r, key, "RequestError", key)
    ELSE Proceed(r, key, target, args_get(request, key))

\* requires_browser: g.order, and the call of the handler
browser_order(request, r) ==
    IF r.status # "ok" THEN r
    ELSE Proceed(Proceed(r, "order", "order",
                         collect_orderings(args_getlist(request, "order"))),
                 "f", "handled", "yes")

\* requires_browser(f)(request)
requires_browser(ws, request, r) ==
    browser_order(request,
        parse_number(request,
            parse_number(request,
                prepare_cell(ws, request,
                    browser_browser(ws, browser_cube(ws, request, r))),
                "page", "page"),
            "pagesize", "page_size"))

\* Specification SpecRequest: one request passes through requires_cube or
\* requires_browser in a workspace with the cubes sales, open to everybody,
\* and secret, open to admin.
WorkspaceArgs ==
    [cubes : {[sales |-> {None, "admin"}, secret |-> {"admin"}]},
     browsable : BOOLEAN,
     authorizer : {None, "simple", "denying"}]

RequestArgs ==
    {[args |-> a @@ b @@ c @@ d @@ e, view_args |-> [cube_name |-> n]] :
        a \in Opt("lang", {<<"sk">>}),
        b \in Opt("cut", {<<"date:2020">>, <<"date:2020", "malformed">>}),
        c \in Opt("page", {<<"1">>, <<"x">>}),
        d \in Opt("pagesize", {<<"20">>, <<"">>}),
        e \in Opt("order", {<< <<"a", ":", "a">>, <<"a", ",", "a">> >>}),
        n \in {None, "sales", "secret", "nosuch"}}

\* the request context when a wrapper is entered
EnteredWith(identity) ==
    [status |-> "ok", g |-> [auth_identity |-> identity], trace |-> <<>>, error |-> None]

RequestInit ==
    /\ attrs = <<>> /\ levels = <<>> /\ hiers = <<>> /\ dims = <<>>
    /\ call = NoCall
    /\ ret = NoRet
    /\ NoRegistry

RequiresCube ==
    /\ call = NoCall
    /\ \E ws \in WorkspaceArgs, request \in RequestArgs, identity \in {None, "admin"} :
          /\ call' = [op |-> "requires_cube", workspace |-> ws, request |-> request,
                      identity |-> identity]
          /\ ret' = requires_cube(ws, request, EnteredWith(identity))
    /\ UNCHANGED <<attrs, levels, hiers, dims, finder, exts, creates, threads>>

RequiresBrowser ==
    /\ call = NoCall
    /\ \E ws \in WorkspaceArgs, request \in RequestArgs, identity \in {None, "admin"} :
          /\ call' = [op |-> "requires_browser", workspace |-> ws, request |-> request,
                      identity |-> identity]
          /\ ret' = requires_browser(ws, request, EnteredWith(identity))
    /\ UNCHANGED <<attrs, levels, hiers, dims, finder, exts, creates, threads>>

RequestNext == RequiresCube \/ RequiresBrowser

SpecRequest == RequestInit /\ [][RequestNext]_vars

\* how often the wrapper called step
Times(step) == Cardinality({i \in 1..Len(ret.trace) : ret.trace[i] = step})

\* the value of the parameter key is given and is no number
NonNumeric(key) ==
    /\ key \in DOMAIN call.request.args
    /\ call.request.args[key][1] \notin {"1", "20"}

\* the workspace denies the request's cube to the request's identity
Denied ==
    /\ call.request.view_args.cube_name \in DOMAIN call.workspace.cubes
    /\ call.identity \notin call.workspace.cubes[call.request.view_args.cube_name]

\* the request names a cube the workspace does not have
UnknownCube ==
    /\ call.request.view_args.cube_name # None
    /\ call.request.view_args.cube_name \notin DOMAIN call.workspace.cubes

\* C22: a request through requires_browser calls the handler at most once,
\* and only after the authorization of the cube (when one is named), the
\* browser, the restricted cell, page and pagesize were done without error,
\* in this order; with the cube denied the wrapper ends with a
\* not-authorized error, with a non-numeric page or pagesize reached it ends
\* with a request error, and in both cases the handler is not called.
C22_HandlerLast ==
    call.op = "requires_browser" =>
        /\ Times("f") <= 1
        /\ Times("f") = 1 =>
              /\ ret.status = "ok"
              /\ ret.trace = (IF call.request.view_args.cube_name # None
                              THEN <<"authorized_cube">> ELSE <<>>)
                                \o <<"browser", "prepare_cell", "page", "pagesize",
                                     "order", "f">>
              /\ {"cube", "browser", "cell", "page", "page_size", "order"}
                    \subseteq DOMAIN ret.g
              /\ ~Denied /\ ~UnknownCube
              /\ ~NonNumeric("page") /\ ~NonNumeric("pagesize")
        /\ Denied => ret.status = "NotAuthorizedError" /\ Times("f") = 0
        /\ (NonNumeric("page") \/ NonNumeric("pagesize")) =>
              /\ Times("f") = 0
              /\ ret.status # "ok"
              /\ "page" \in Range(ret.trace) => ret.status = "RequestError"

\* the handler was called for a request with a cube, a page and a pagesize
C22_Witness ==
    /\ call.op = "requires_browser"
    /\ call.request.view_args.cube_name = "secret"
    /\ {"page", "pagesize", "cut", "order"} \subseteq DOMAIN call.request.args
    /\ Times("f") = 1
    /\ ret.g.page = "1"

\* C23 as stated: a request naming a cube the workspace does not have fails
\* with a not-found error naming the cube, through requires_cube and through
\* requires_browser alike.
C23_AsStated ==
    (call.op \in {"requires_cube", "requires_browser"} /\ UnknownCube) =>
        /\ ret.status = "NotFoundError"
        /\ ret.error = call.request.view_args.cube_name

\* ---------------------------------------------------------------------
\* Dimension.is_flat on dimensions and their clones

\* the dimensions that were built, by the constructor or by clone()
BuiltDimensions == {d \in 1..Len(dims) : dims[d].ok}

extensions_get(g, name) ==
    IF name \in DOMAIN g.finder.extensions THEN g.finder.extensions[name] ELSE 0

\* the wrapper of builtin(name), were it to look in the cache once more and
\* take the object another thread stored meanwhile
builtin_new_checked(g, name) ==
    IF name \in DOMAIN g.finder.extensions
    THEN [exts |-> g.exts, ext |-> g.finder.extensions[name]]
    ELSE [exts |-> Append(g.exts, set_factory(Extension(g.finder.type_, None, name),
                                              builtins(g.finder.type_)[name])),
          ext |-> Len(g.exts) + 1]

\* builtin(name) up to its store: the module is loaded, a new _Extension is
\* made and given its factory
builtin_new(g, name) ==
    [exts |-> Append(g.exts, set_factory(Extension(g.finder.type_, None, name),
                                         builtins(g.finder.type_)[name])),
     ext |-> Len(g.exts) + 1]

\* self.extensions[name] = ext
extensions_store(g, name, ext) ==
    [g.finder EXCEPT !.extensions = (name :> ext) @@ @]

Callers == {1, 2}

Idle == [pc |-> "idle", name |-> None, ext |-> 0, missed |-> FALSE, status |-> None]

RaceInit ==
    /\ attrs = <<>> /\ levels = <<>> /\ hiers = <<>> /\ dims = <<>>
    /\ \E type_ \in FinderTypes : finder = [type_ |-> type_, extensions |-> <<>>]
    /\ exts = <<>>
    /\ creates = {}
    /\ threads = [t \in Callers |-> Idle]
    /\ call = NoCall
    /\ ret = NoRet

\* the warm-up: one _get(name) that runs to its end before any thread starts
WarmUp ==
    /\ call = NoCall
    /\ \A t \in Callers : threads[t].pc = "idle"
    /\ \E name \in ExtensionNames, quit \in BOOLEAN :
          LET r == _get(Registry, name, quit)
          IN  /\ finder' = r.finder
              /\ exts' = r.exts
              /\ call' = [op |-> "_get", name |-> name, before |-> Registry,
                          created |-> FALSE]
              /\ ret' = [status |-> r.status, ext |-> r.ext, value |-> None]
    /\ UNCHANGED <<attrs, levels, hiers, dims, creates, threads>>

\* a thread calls _get(name)
Enter ==
    /\ \E t \in Callers, name \in ExtensionNames :
          /\ threads[t].pc = "idle"
          /\ threads' = [threads EXCEPT ![t] = [Idle EXCEPT !.pc = "get", !.name = name]]
    /\ UNCHANGED <<attrs, levels, hiers, dims, finder, exts, creates, call, ret>>

\* ext = self.extensions.get(name); if not ext: ...
LookupCache ==
    /\ \E t \in Callers :
          /\ threads[t].pc = "get"
          /\ LET ext == extensions_get(Registry, threads[t].name)
             IN  threads' = [threads EXCEPT ![t] =
                    IF ext # 0
                    THEN [@ EXCEPT !.pc = "done", !.ext = ext, !.status = "ok"]
                    ELSE [@ EXCEPT !.pc = "builtin", !.missed = TRUE]]
    /\ UNCHANGED <<attrs, levels, hiers, dims, finder, exts, creates, call, ret>>

\* ext = self.builtin(name), up to the store; a name that is no builtin
\* ends in the debugger and the exception
Builtin ==
    /\ \E t \in Callers, quit \in BOOLEAN :
          /\ threads[t].pc = "builtin"
          /\ IF threads[t].name \in DOMAIN builtins(finder.type_)
             THEN LET r == builtin_new(Registry, threads[t].name)
                  IN  /\ exts' = r.exts
                      /\ threads' = [threads EXCEPT ![t] =
                                        [@ EXCEPT !.pc = "store", !.ext = r.ext]]
             ELSE /\ exts' = exts
                  /\ threads' = [threads EXCEPT ![t] =
                        [@ EXCEPT !.pc = "failed",
                                  !.status = IF quit THEN "BdbQuit" ELSE "Exception"]]
    /\ UNCHANGED <<attrs, levels, hiers, dims, finder, creates, call, ret>>

\* self.extensions[name] = ext; return ext
Store ==
    /\ \E t \in Callers :
          /\ threads[t].pc = "store"
          /\ finder' = extensions_store(Registry, threads[t].name, threads[t].ext)
          /\ threads' = [threads EXCEPT ![t] = [@ EXCEPT !.pc = "done", !.status = "ok"]]
    /\ UNCHANGED <<attrs, levels, hiers, dims, exts, creates, call, ret>>

RaceNext == WarmUp \/ Enter \/ LookupCache \/ Builtin \/ Store

SpecRace == RaceInit /\ [][RaceNext]_vars

\* two callers that both returned from _get of the same name
Returned(t, u) ==
    /\ t # u
    /\ threads[t].pc = "done" /\ threads[u].pc = "done"
    /\ threads[t].name = threads[u].name

\* C25: two _get calls of one name that both returned hold different
\* extension objects exactly when both missed the cache; then each built
\* its own loaded wrapper and exactly one of the two is the object the
\* cache holds for the name.  A name that was resolved by a warm-up before
\* the threads started is missed by no thread.
C25_Race ==
    /\ \A t, u \in Callers :
          Returned(t, u) =>
             /\ (threads[t].ext # threads[u].ext) <=> (threads[t].missed /\ threads[u].missed)
             /\ (threads[t].ext # threads[u].ext) =>
                   /\ exts[threads[t].ext].loads = 1
                   /\ exts[threads[u].ext].loads = 1
                   /\ exts[threads[t].ext].name = threads[t].name
                   /\ exts[threads[u].ext].name = threads[t].name
                   /\ extensions_get(Registry, threads[t].name) \in
                         {threads[t].ext, threads[u].ext}
    /\ \A t \in Callers :
          (call # NoCall /\ ret.status = "ok" /\ threads[t].name = call.name)
              => ~threads[t].missed

\* both callers missed the cache, each holds the wrapper it built, and the
\* cache keeps the second caller's
C25_Witness ==
    /\ call = NoCall
    /\ Returned(1, 2)
    /\ threads[1].missed /\ threads[2].missed
    /\ threads[1].ext # threads[2].ext
    /\ extensions_get(Registry, threads[1].name) = threads[2].ext
    /\ Len(exts) = 2

\* ---------------------------------------------------------------------
\* The dimension clone() returns, and the source it leaves behind

\* the latest call is a clone() that returned a dimension
Cloned == call.op = "clone" /\ ret.status = "ok"

\* the level objects reachable through the hierarchies of the dimension d
HierarchyLevels(d) ==
    UNION {Range(hiers[dims[d].hierarchies[i]].levels) : i \in 1..Len(dims[d].hierarchies)}

\* C26 (as stated): in a dimension returned by clone(), every level object
\* reachable through any of the clone's hierarchies is the clone's own
\* level of that name, and every attribute of such a level is owned by the
\* clone, also when two selected hierarchies share a level.
C26_AsStated ==
    Cloned =>
        \A l \in HierarchyLevels(ret.id) :
            /\ \E i \in 1..Len(dims[ret.id].levels) :
                  /\ levels[dims[ret.id].levels[i]].name = levels[l].name
                  /\ dims[ret.id].levels[i] = l
            /\ \A a \in Range(levels[l].attributes) : attrs[a].dimension = ret.id

\* C27: clone() leaves the source dimension unchanged: after a clone call,
\* successful or failing, the source's fields (levels, hierarchies,
\* default hierarchy name, master among them), its level and hierarchy
\* objects and the attributes of its levels are as before the call, and
\* every attribute of the source's levels is still owned by the source.
C27_SourceKept ==
    call.op = "clone" =>
        /\ dims[call.self] = call.before.dims[call.self]
        /\ \A i \in 1..Len(dims[call.self].levels) :
              levels[dims[call.self].levels[i]] = call.before.levels[dims[call.self].levels[i]]
        /\ \A i \in 1..Len(dims[call.self].hierarchies) :
              hiers[dims[call.self].hierarchies[i]] =
                 call.before.hiers[dims[call.self].hierarchies[i]]
        /\ \A a \in DimensionAttributes(call.self) :
              /\ attrs[a] = call.before.attrs[a]
              /\ attrs[a].dimension = call.self

\* a clone of a dimension with the levels year and month was made, its
\* levels are copies, and the source still owns its three attributes
C27_Witness ==
    /\ Cloned
    /\ dims[call.self].levels = <<1, 2>>
    /\ dims[ret.id].master = call.self
    /\ Range(dims[ret.id].levels) \cap Range(dims[call.self].levels) = {}
    /\ \A a \in DimensionAttributes(ret.id) : attrs[a].dimension = ret.id
    /\ Cardinality(DimensionAttributes(call.self)) = 3

\* ---------------------------------------------------------------------
\* What a failing construction leaves behind

\* the latest call is a Dimension(...) that raised the model error, one of
\* the attributes it was given being owned by another dimension
Refused ==
    /\ call.op = "Dimension"
    /\ ret.status = "ModelError"
    /\ \E i \in 1..Len(call.owners) : call.owners[i] # 0

\* C28 (as stated): a construction that fails with the model error because
\* some attribute is owned by another dimension leaves the ownership of
\* every attribute it was given unchanged: no attribute that was unowned
\* ends up owned by the dimension that failed to construct.
C28_AsStated ==
    Refused =>
        \A a \in Range(all_attributes(call.before, call.levels)) :
            attrs[a].dimension = call.before.attrs[a].dimension

\* ---------------------------------------------------------------------
\* Dimension equality, and the clone made with no modifications

\* Hierarchy.__eq__: name, label (no hierarchy here has one) and the list of
\* levels, compared level by level
Hierarchy_eq(h, h1, h2) ==
    /\ h.hiers[h1].name = h.hiers[h2].name
    /\ Len(h.hiers[h1].levels) = Len(h.hiers[h2].levels)
    /\ \A i \in 1..Len(h.hiers[h1].levels) :
          Level_eq(h, h.hiers[h1].levels[i], h.hiers[h2].levels[i])

\* Dimension.__eq__: name, role, label, description, cardinality, category,
\* default_hierarchy_name, and the ordered dictionaries _levels and
\* _hierarchies, which are equal when they hold equal objects in the same
\* order
Dimension_eq(h, d1, d2) ==
    /\ h.dims[d1].name = h.dims[d2].name
    /\ h.dims[d1].role = h.dims[d2].role
    /\ h.dims[d1].label = h.dims[d2].label
    /\ h.dims[d1].description = h.dims[d2].description
    /\ h.dims[d1].cardinality = h.dims[d2].cardinality
    /\ h.dims[d1].category = h.dims[d2].category
    /\ h.dims[d1].default_hierarchy_name = h.dims[d2].default_hierarchy_name
    /\ Len(h.dims[d1].levels) = Len(h.dims[d2].levels)
    /\ \A i \in 1..Len(h.dims[d1].levels) :
          Level_eq(h, h.dims[d1].levels[i], h.dims[d2].levels[i])
    /\ Len(h.dims[d1].hierarchies) = Len(h.dims[d2].hierarchies)
    /\ \A i \in 1..Len(h.dims[d1].hierarchies) :
          Hierarchy_eq(h, h.dims[d1].hierarchies[i], h.dims[d2].hierarchies[i])

\* Specification SpecEqual: dimensions over the levels year and month, with
\* a label and with or without a category, their clones made by clone()
\* with no arguments, and the comparison of each clone with its source.
CategoryArgs == {None, "c1"}

EqualInit == OwnInit

\* Dimension("date", levels, hierarchies, label="Date", category=category)
CategoryDimension ==
    /\ Len(dims) < MaxDims
    /\ Effective
    /\ \E ls \in SeqsUpTo(1..Len(OwnHeap.levels), MaxDimLevels), hs \in OwnHierarchies,
          category \in CategoryArgs :
          LET r == described(DimensionInit(Heap, "date", ls, hs, None, 0, None, <<>>),
                             [label |-> "Date", description |-> None, info |-> {},
                              role |-> None, cardinality |-> None,
                              category |-> category])
          IN  /\ SetHeap(r.h)
              /\ call' = [op |-> "Dimension", levels |-> ls, hierarchies |-> hs,
                          category |-> category, owners |-> owners(Heap, ls),
                          before |-> Heap]
              /\ ret' = [status |-> r.status, id |-> r.id]

\* c = d.clone(); c == d
CloneEqual ==
    /\ Len(dims) < MaxDims
    /\ Effective
    /\ \E d \in 1..Len(dims), keeps \in BOOLEAN :
          /\ dims[d].ok
          /\ LET r == clone(Heap, d, NoneList, NoneList, None, None, keeps)
             IN  /\ SetHeap(r.h)
                 /\ call' = [op |-> "clone", self |-> d,
                             hierarchies |-> NoneList,
                             exclude_hierarchies |-> NoneList,
                             before |-> Heap]
                 /\ ret' = [status |-> r.status, id |-> r.id,
                            equal |-> IF r.status = "ok" THEN Dimension_eq(r.h, r.id, d)
                                      ELSE FALSE]

EqualNext == CategoryDimension \/ CloneEqual

SpecEqual == EqualInit /\ [][EqualNext]_vars

\* C29 (as stated): a clone made with no modifications is equal to its
\* source under Dimension equality, for every source dimension, one with a
\* category set included.
C29_AsStated == Cloned => ret.equal

\* ---------------------------------------------------------------------
\* compile_attributes and the mapping of bases it is given

\* the refs of the attributes in dependants
DependantRefs == {call.dependants[i].ref : i \in 1..Len(call.dependants)}

\* C30: compile_attributes does not modify the bases mapping it is given,
\* whether it returns or raises, and on success the key set of the mapping
\* it returns is exactly the keys of bases together with the ref of every
\* attribute in dependants.
C30_BasesKept ==
    call.op = "compile_attributes" =>
        /\ ret.bases = call.bases
        /\ ret.status = "ok" => DOMAIN ret.columns = DOMAIN call.bases \cup DependantRefs

\* two dependants were compiled over the base a: the mapping returned has
\* the three keys, and bases still has the one
C30_Witness ==
    /\ call.op = "compile_attributes"
    /\ ret.status = "ok"
    /\ DOMAIN call.bases = {"a"}
    /\ Cardinality(DependantRefs) = 2
    /\ Cardinality(DOMAIN ret.columns) = 3
    /\ DOMAIN ret.bases = {"a"}

====
